---- MODULE Spec2Model ----
(***************************************************************************)
(* The data cleaning functions of src/src/data_processing/data_cleaner.py  *)
(* and the validators of src/src/data_processing/validation.py as          *)
(* operators over tables, the calls made to them as actions, and the last  *)
(* stages of main() of scripts/clean_workforce_capacity_data.py.           *)
(*                                                                         *)
(* A table (a polars DataFrame) is a record                                *)
(*     [schema |-> the function from its column names to their dtypes,     *)
(*      rows   |-> the sequence of its rows]                               *)
(* where a row is a function from the column names to cells.  A cell is a  *)
(* tuple: <<>> is null and <<v>> holds the value v, so that a null is      *)
(* distinct from every value of every type.                                *)
(*                                                                         *)
(* The state is one call: its arguments (args), what it returned or raised *)
(* (ret), what the call before it returned (prev) and how many calls have  *)
(* been made (calls).  A second call feeds the returned table back in.     *)
(***************************************************************************)
EXTENDS Integers, Sequences, FiniteSets, Bags, TLC

VARIABLES args, ret, prev, calls

vars == <<args, ret, prev, calls>>

(***************************************************************************)
(* Bounds of the model.                                                    *)
(***************************************************************************)
\* rows of each input table of the unifier, the standardizer and the
\* missing-value handler
MaxRows == 2

(***************************************************************************)
(* Cells, rows and tables.                                                 *)
(***************************************************************************)
Null == <<>>

Some(v) == <<v>>

\* pl.col(c).is_null()
is_null(cell) == Len(cell) = 0

\* len(df)
len(df) == Len(df.rows)

\* df.columns, as a set
columns(df) == DOMAIN df.schema

\* The dtype a column of a raw input table is read with.
InputDType ==
    [year |-> "Int64", sector |-> "String", count |-> "Int64",
     specialist_category |-> "String", nurse_type |-> "String",
     institution_type |-> "String", num_facilities |-> "Int64", num_beds |-> "Int64",
     bad_col |-> "Int64", has_missing_values |-> "Boolean"]

\* All rows over the given columns, the cell of column c drawn from dom[c].
RECURSIVE RowsOver(_, _)
RowsOver(cols, dom) ==
    IF cols = {} THEN {[c \in {} |-> Null]}
    ELSE LET c0 == CHOOSE c \in cols : TRUE
         IN  {[c \in cols |-> IF c = c0 THEN v ELSE r[c]] :
                 v \in dom[c0], r \in RowsOver(cols \ {c0}, dom)}

SeqsUpTo(S, n) == UNION {[1..k -> S] : k \in 0..n}

\* All tables over the given columns with at most n rows.
TablesOver(cols, dom, n) ==
    {[schema |-> [c \in cols |-> InputDType[c]], rows |-> rs] :
        rs \in SeqsUpTo(RowsOver(cols, dom), n)}

\* df.with_columns(pl.lit(v).cast(dtype).alias(name)): the column is added,
\* or replaced when the table already has one of that name; every row gets
\* the cell.
with_literal(df, name, cell, dtype) ==
    [schema |-> [c \in columns(df) \cup {name} |->
                    IF c = name THEN dtype ELSE df.schema[c]],
     rows   |-> [i \in 1..Len(df.rows) |->
                    [c \in columns(df) \cup {name} |->
                        IF c = name THEN cell ELSE df.rows[i][c]]]]

\* df.drop(cols_to_drop)
drop(df, cols_to_drop) ==
    [schema |-> [c \in columns(df) \ cols_to_drop |-> df.schema[c]],
     rows   |-> [i \in 1..Len(df.rows) |->
                    [c \in columns(df) \ cols_to_drop |-> df.rows[i][c]]]]

\* The rows of a frame over a wider column set: the columns the frame lacks
\* are null.
PadRows(df, cols) ==
    [i \in 1..Len(df.rows) |->
        [c \in cols |-> IF c \in columns(df) THEN df.rows[i][c] ELSE Null]]

RECURSIVE ConcatRows(_, _)
ConcatRows(frames, cols) ==
    IF frames = <<>> THEN <<>>
    ELSE PadRows(Head(frames), cols) \o ConcatRows(Tail(frames), cols)

\* The schema of a diagonal concatenation: every column of every frame, with
\* the dtype it has in the frames that hold it (the frames agree on it).
ConcatSchema(frames) ==
    [c \in UNION {columns(frames[i]) : i \in 1..Len(frames)} |->
        LET i == CHOOSE j \in 1..Len(frames) : c \in columns(frames[j])
        IN  frames[i].schema[c]]

RECURSIVE DistinctRows(_)
DistinctRows(rows) ==
    IF rows = <<>> THEN <<>>
    ELSE LET rest == DistinctRows(Tail(rows))
         IN  IF \E i \in 1..Len(rest) : rest[i] = Head(rows)
             THEN rest ELSE <<Head(rows)>> \o rest

\* A concatenation that merges equal rows (a set union instead of an append).
concat_diagonal_union(frames) ==
    [schema |-> ConcatSchema(frames),
     rows   |-> DistinctRows(ConcatRows(frames, DOMAIN ConcatSchema(frames)))]

\* pl.concat(frames, how='diagonal'): the union of the columns, the rows of
\* the frames one after the other in list order, missing columns null.
concat_diagonal(frames) ==
    [schema |-> ConcatSchema(frames),
     rows   |-> ConcatRows(frames, DOMAIN ConcatSchema(frames))]

(***************************************************************************)
(* unify_workforce_tables and unify_capacity_tables.                       *)
(***************************************************************************)
\* "if name not in df.columns:
\*      df = df.with_columns(pl.lit(None).cast(dtype).alias(name))"
add_null_if_missing(df, name, dtype) ==
    IF name \notin columns(df) THEN with_literal(df, name, Null, dtype) ELSE df

\* df.with_columns([pl.lit(tag).alias(tag_column),
\*                  pl.lit(source).alias('source_table')])
tagged(df, tag_column, tag, source) ==
    with_literal(with_literal(df, tag_column, Some(tag), "String"),
                 "source_table", Some(source), "String")

unify_workforce_tables(doctors_df, nurses_df, pharmacists_df) ==
    LET d1 == tagged(doctors_df, "profession", "Doctor", "workforce_doctors")
        n1 == tagged(nurses_df, "profession", "Nurse", "workforce_nurses")
        p1 == tagged(pharmacists_df, "profession", "Pharmacist", "workforce_pharmacists")
        n2 == add_null_if_missing(n1, "specialist_category", "String")
        p2 == add_null_if_missing(p1, "specialist_category", "String")
        d2 == add_null_if_missing(d1, "nurse_type", "String")
        p3 == add_null_if_missing(p2, "nurse_type", "String")
    IN  concat_diagonal(<<d2, n2, p3>>)

unify_capacity_tables(hospital_beds_df, primary_care_df) ==
    LET h1 == tagged(hospital_beds_df, "institution_category", "Hospital",
                     "capacity_hospital_beds")
        c1 == tagged(primary_care_df, "institution_category", "Primary Care",
                     "capacity_primary_care")
        c2 == add_null_if_missing(c1, "num_beds", "Int64")
    IN  concat_diagonal(<<h1, c2>>)

(***************************************************************************)
(* What a call leaves behind.                                              *)
(***************************************************************************)
NoReturn == [raised |-> "pending"]

Returned(df) == [raised |-> "none", value |-> df]

Raised(error, message) == [raised |-> error, message |-> message]

(***************************************************************************)
(* The unifier's inputs: the three workforce tables, each with its         *)
(* documented columns or carrying a profession-specific column of another  *)
(* profession as well (the code tests for the column's presence), and the  *)
(* two capacity tables.                                                    *)
(***************************************************************************)
WorkforceDom ==
    [year |-> {Some(2018)}, sector |-> {Some("Public")}, count |-> {Some(50)},
     specialist_category |-> {Null, Some("Specialists")},
     nurse_type |-> {Null, Some("Registered Nurses")}]

WorkforceBase == {"year", "sector", "count"}

DoctorsTables ==
    TablesOver(WorkforceBase \cup {"specialist_category"},
               [WorkforceDom EXCEPT !.specialist_category = {Some("Specialists")}], MaxRows)
    \cup TablesOver(WorkforceBase \cup {"specialist_category", "nurse_type"},
               [WorkforceDom EXCEPT !.specialist_category = {Some("Specialists")}], MaxRows)

NursesTables ==
    TablesOver(WorkforceBase \cup {"nurse_type"},
               [WorkforceDom EXCEPT !.nurse_type = {Some("Registered Nurses")}], MaxRows)
    \cup TablesOver(WorkforceBase \cup {"nurse_type", "specialist_category"},
               [WorkforceDom EXCEPT !.nurse_type = {Some("Registered Nurses")}], MaxRows)

PharmacistsTables ==
    TablesOver(WorkforceBase, WorkforceDom, MaxRows)
    \cup TablesOver(WorkforceBase \cup {"specialist_category"}, WorkforceDom, MaxRows)
    \cup TablesOver(WorkforceBase \cup {"nurse_type"}, WorkforceDom, MaxRows)

CapacityDom ==
    [year |-> {Some(2018)}, institution_type |-> {Some("Acute"), Some("Polyclinic")},
     num_facilities |-> {Some(10)}, num_beds |-> {Null, Some(300)}]

CapacityBase == {"year", "institution_type", "num_facilities"}

HospitalBedsTables ==
    TablesOver(CapacityBase \cup {"num_beds"}, CapacityDom, MaxRows)

PrimaryCareTables ==
    TablesOver(CapacityBase, CapacityDom, MaxRows)
    \cup TablesOver(CapacityBase \cup {"num_beds"}, CapacityDom, MaxRows)

UnifyArgs ==
    {[fn |-> "unify_workforce_tables", doctors_df |-> d, nurses_df |-> n,
      pharmacists_df |-> p] :
        d \in DoctorsTables, n \in NursesTables, p \in PharmacistsTables}
    \cup
    {[fn |-> "unify_capacity_tables", hospital_beds_df |-> h, primary_care_df |-> c] :
        h \in HospitalBedsTables, c \in PrimaryCareTables}

InitUnify ==
    /\ args \in UnifyArgs
    /\ ret = NoReturn
    /\ prev = NoReturn
    /\ calls = 0

CallUnifyWorkforce ==
    /\ calls = 0
    /\ args.fn = "unify_workforce_tables"
    /\ ret' = Returned(unify_workforce_tables(args.doctors_df, args.nurses_df,
                                              args.pharmacists_df))
    /\ prev' = ret
    /\ calls' = calls + 1
    /\ UNCHANGED args

CallUnifyCapacity ==
    /\ calls = 0
    /\ args.fn = "unify_capacity_tables"
    /\ ret' = Returned(unify_capacity_tables(args.hospital_beds_df, args.primary_care_df))
    /\ prev' = ret
    /\ calls' = calls + 1
    /\ UNCHANGED args

NextUnify == CallUnifyWorkforce \/ CallUnifyCapacity

SpecUnify == InitUnify /\ [][NextUnify]_vars

(***************************************************************************)
(* Claims about the unifier.                                               *)
(***************************************************************************)
UnifiedWorkforce == calls = 1 /\ args.fn = "unify_workforce_tables" /\ ret.raised = "none"

UnifiedCapacity == calls = 1 /\ args.fn = "unify_capacity_tables" /\ ret.raised = "none"

\* C1: the unified table has as many rows as the input tables together:
\* len(doctors) + len(nurses) + len(pharmacists) for the workforce unifier,
\* len(hospital_beds) + len(primary_care) for the capacity unifier, empty
\* inputs included.
C1_UnifyRowCount ==
    /\ (calls = 1 /\ args.fn = "unify_workforce_tables") =>
          /\ ret.raised = "none"
          /\ len(ret.value) = len(args.doctors_df) + len(args.nurses_df)
                                + len(args.pharmacists_df)
    /\ (calls = 1 /\ args.fn = "unify_capacity_tables") =>
          /\ ret.raised = "none"
          /\ len(ret.value) = len(args.hospital_beds_df) + len(args.primary_care_df)

\* An empty doctors table unified with two equal nurse rows and a pharmacist.
C1_Witness ==
    /\ UnifiedWorkforce
    /\ len(args.doctors_df) = 0
    /\ len(args.nurses_df) = 2
    /\ args.nurses_df.rows[1] = args.nurses_df.rows[2]
    /\ len(args.pharmacists_df) = 1
    /\ len(ret.value) = 3

\* C2: in the unified table every row that is not a Doctor row has a null
\* specialist_category, every row that is not a Nurse row a null nurse_type,
\* and every row that is not a Hospital row a null num_beds, whatever the
\* input tables.
C2_ForeignColumnsNull ==
    /\ UnifiedWorkforce =>
          \A i \in 1..len(ret.value) :
              LET r == ret.value.rows[i]
              IN  /\ r["profession"] # Some("Doctor") => is_null(r["specialist_category"])
                  /\ r["profession"] # Some("Nurse") => is_null(r["nurse_type"])
    /\ UnifiedCapacity =>
          \A i \in 1..len(ret.value) :
              LET r == ret.value.rows[i]
              IN  r["institution_category"] # Some("Hospital") => is_null(r["num_beds"])

(***************************************************************************)
(* standardize_sector_names.                                               *)
(***************************************************************************)
\* A replacement that nulls every value the mapping does not hold
\* (replace_strict with a null default).
replace_strict(cell, mapping) ==
    IF ~is_null(cell) /\ cell[1] \in DOMAIN mapping THEN Some(mapping[cell[1]]) ELSE Null

\* pl.col(c).replace(mapping) on one cell: a value that is a key of the
\* mapping becomes the key's value, looked up once; any other value, and
\* null, stays.
replace(cell, mapping) ==
    IF ~is_null(cell) /\ cell[1] \in DOMAIN mapping THEN Some(mapping[cell[1]]) ELSE cell

\* df.with_columns(pl.col(column).replace(mapping).alias(column))
with_replaced(df, column, mapping) ==
    [schema |-> df.schema,
     rows   |-> [i \in 1..Len(df.rows) |->
                    [c \in columns(df) |->
                        IF c = column THEN replace(df.rows[i][c], mapping)
                        ELSE df.rows[i][c]]]]

\* df.with_columns(pl.col(column).cast(pl.Categorical).alias(column)): the
\* strings of the column become the categories, value for value.
cast_categorical(df, column) ==
    [schema |-> [df.schema EXCEPT ![column] = "Categorical"], rows |-> df.rows]

standardize_sector_names(df, sector_column, standardization_map) ==
    IF sector_column \notin columns(df)
    THEN Raised("ValueError", <<"Sector column '", sector_column,
                                "' not found in DataFrame">>)
    ELSE Returned(cast_categorical(
                      with_replaced(df, sector_column, standardization_map),
                      sector_column))

\* The standardizer's inputs: a table with a year and a sector column, the
\* column to standardize (one the table has, or one it lacks) and a mapping
\* from raw sector names to canonical ones.
SectorNames == {"Public Sector", "Public", "Private"}

CanonicalSectors == {"Public", "Private"}

SectorDom ==
    [year |-> {Some(2018), Some(2019)},
     sector |-> {Null} \cup {Some(v) : v \in SectorNames}]

SectorMaps == UNION {[K -> CanonicalSectors] : K \in SUBSET SectorNames}

SectorArgs ==
    {[fn |-> "standardize_sector_names", df |-> t, sector_column |-> c,
      standardization_map |-> m] :
        t \in TablesOver({"year", "sector"}, SectorDom, MaxRows),
        c \in {"sector", "institution_type"},
        m \in SectorMaps}

InitSector ==
    /\ args \in SectorArgs
    /\ ret = NoReturn
    /\ prev = NoReturn
    /\ calls = 0

\* df_std = standardize_sector_names(df, sector_column, mapping)
CallStandardize ==
    /\ calls = 0
    /\ args.fn = "standardize_sector_names"
    /\ ret' = standardize_sector_names(args.df, args.sector_column,
                                       args.standardization_map)
    /\ prev' = ret
    /\ calls' = calls + 1
    /\ UNCHANGED args

\* standardize_sector_names(df_std, sector_column, mapping): the same call on
\* the table the first call returned.
CallStandardizeAgain ==
    /\ calls = 1
    /\ args.fn = "standardize_sector_names"
    /\ ret.raised = "none"
    /\ ret' = standardize_sector_names(ret.value, args.sector_column,
                                       args.standardization_map)
    /\ prev' = ret
    /\ calls' = calls + 1
    /\ UNCHANGED args

NextSector == CallStandardize \/ CallStandardizeAgain

SpecSector == InitSector /\ [][NextSector]_vars

(***************************************************************************)
(* Claims about the standardizer.                                          *)
(***************************************************************************)
\* The table the last call of a run was given.
LastInput == IF calls = 2 THEN prev.value ELSE args.df

\* The cells of one column, in row order.
ColumnValues(df, c) == [i \in 1..Len(df.rows) |-> df.rows[i][c]]

StandardizedTwice ==
    /\ calls = 2
    /\ args.fn = "standardize_sector_names"
    /\ prev.raised = "none"
    /\ ret.raised = "none"

\* C3, as claimed: for any mapping, standardizing the returned table again
\* with the same mapping leaves the sector column as the first call left it.
C3_IdempotentAnyMap ==
    StandardizedTwice =>
        ColumnValues(ret.value, args.sector_column)
            = ColumnValues(prev.value, args.sector_column)

\* A mapping whose values are final: a value that is also a key maps to itself.
NoChain(mapping) ==
    \A k \in DOMAIN mapping :
        mapping[k] \in DOMAIN mapping => mapping[mapping[k]] = mapping[k]

\* C3, amended: for any mapping in which every value that is also a key maps
\* to itself, standardizing the returned table again with the same mapping
\* leaves the sector column as the first call left it.
C3_IdempotentNoChain ==
    (StandardizedTwice /\ NoChain(args.standardization_map)) =>
        ColumnValues(ret.value, args.sector_column)
            = ColumnValues(prev.value, args.sector_column)

\* Two calls with a chain-free mapping of which the first changed a value.
C3_Witness ==
    /\ StandardizedTwice
    /\ NoChain(args.standardization_map)
    /\ ColumnValues(prev.value, "sector") # ColumnValues(args.df, "sector")
    /\ \E i \in 1..len(args.df) :
          /\ ~is_null(args.df.rows[i]["sector"])
          /\ args.df.rows[i]["sector"][1] \notin DOMAIN args.standardization_map

\* C4: a call that returns leaves the row count, the row order and every
\* other column as they were, and in the sector column replaces a value that
\* is a key of the mapping by the key's value and leaves any other value.
C4_ReplaceKeysOnly ==
    (calls >= 1 /\ args.fn = "standardize_sector_names" /\ ret.raised = "none") =>
        /\ len(ret.value) = len(LastInput)
        /\ columns(ret.value) = columns(LastInput)
        /\ \A i \in 1..len(LastInput) :
              LET before == LastInput.rows[i]
                  after  == ret.value.rows[i]
                  v      == before[args.sector_column]
              IN  /\ \A c \in columns(LastInput) \ {args.sector_column} :
                        after[c] = before[c]
                  /\ IF ~is_null(v) /\ v[1] \in DOMAIN args.standardization_map
                     THEN after[args.sector_column]
                            = Some(args.standardization_map[v[1]])
                     ELSE after[args.sector_column] = v

\* One call on two rows that differ in year, one with a mapped sector and one
\* with an unmapped one.
C4_Witness ==
    /\ calls = 1
    /\ args.fn = "standardize_sector_names"
    /\ ret.raised = "none"
    /\ len(args.df) = 2
    /\ args.df.rows[1]["year"] # args.df.rows[2]["year"]
    /\ args.df.rows[1]["sector"] = Some("Public Sector")
    /\ args.df.rows[2]["sector"] = Some("Private")
    /\ DOMAIN args.standardization_map = {"Public Sector"}
    /\ ret.value.rows[1]["sector"] = Some("Public")
    /\ ret.value.rows[2]["sector"] = Some("Private")

(***************************************************************************)
(* handle_missing_values.                                                  *)
(***************************************************************************)
\* rows of the tall tables given to the missing-value handler
MaxTallRows == 20

\* df[col].null_count()
null_count(df, col) == Cardinality({i \in 1..Len(df.rows) : is_null(df.rows[i][col])})

\* The (null_count, total_rows) pairs with total_rows < 60 for which the
\* double  null_count / total_rows * 100  is not the percentage itself although
\* the percentage is a double: Python's 11 / 20 * 100 is 55.00000000000001,
\* 23 / 40 * 100 is 57.49999999999999.
RoundedAbove ==
    {<<11, 20>>, <<7, 25>>, <<14, 25>>, <<11, 40>>, <<22, 40>>,
     <<7, 50>>, <<14, 50>>, <<28, 50>>}

RoundedBelow == {<<23, 40>>, <<29, 50>>}

\* "(df[col].null_count() / total_rows_before * 100) if total_rows_before > 0
\* else 0": the double computed, as the exact percentage num / den and the
\* side on which the two roundings (of the quotient, of the product) leave it.
null_pct(nulls, total_rows) ==
    IF total_rows > 0
    THEN [num |-> 100 * nulls, den |-> total_rows,
          side |-> IF <<nulls, total_rows>> \in RoundedAbove THEN 1
                   ELSE IF <<nulls, total_rows>> \in RoundedBelow THEN -1 ELSE 0]
    ELSE [num |-> 0, den |-> 1, side |-> 0]

\* "null_pct > drop_threshold", drop_threshold a whole number of percent.
exceeds(pct, drop_threshold) ==
    \/ pct.num > drop_threshold * pct.den
    \/ pct.num = drop_threshold * pct.den /\ pct.side > 0

\* A row flag that asks for every column to be null (pl.all_horizontal).
all_horizontal_null(row, cols) == \A c \in cols : is_null(row[c])

\* pl.any_horizontal([pl.col(c).is_null() for c in df.columns]) on one row
any_horizontal_null(row, cols) == \E c \in cols : is_null(row[c])

\* A flag column that replaces the frame (df.select) instead of joining it.
select_flag(df) ==
    [schema |-> [c \in {"has_missing_values"} |-> "Boolean"],
     rows   |-> [i \in 1..Len(df.rows) |->
                    [c \in {"has_missing_values"} |->
                        Some(any_horizontal_null(df.rows[i], columns(df)))]]]

\* df_handled.with_columns(pl.any_horizontal(...).alias('has_missing_values'))
with_flag(df) ==
    [schema |-> [c \in columns(df) \cup {"has_missing_values"} |->
                    IF c = "has_missing_values" THEN "Boolean" ELSE df.schema[c]],
     rows   |-> [i \in 1..Len(df.rows) |->
                    [c \in columns(df) \cup {"has_missing_values"} |->
                        IF c = "has_missing_values"
                        THEN Some(any_horizontal_null(df.rows[i], columns(df)))
                        ELSE df.rows[i][c]]]]

RECURSIVE RowsWithValue(_, _)
RowsWithValue(rows, cols) ==
    IF rows = <<>> THEN <<>>
    ELSE IF \A c \in cols : is_null(Head(rows)[c])
         THEN RowsWithValue(Tail(rows), cols)
         ELSE <<Head(rows)>> \o RowsWithValue(Tail(rows), cols)

\* A drop that removes only the rows that are null in every column.
drop_nulls_all(df) == [schema |-> df.schema, rows |-> RowsWithValue(df.rows, columns(df))]

RECURSIVE RowsWithoutNull(_, _)
RowsWithoutNull(rows, cols) ==
    IF rows = <<>> THEN <<>>
    ELSE IF \E c \in cols : is_null(Head(rows)[c])
         THEN RowsWithoutNull(Tail(rows), cols)
         ELSE <<Head(rows)>> \o RowsWithoutNull(Tail(rows), cols)

\* df_handled.drop_nulls()
drop_nulls(df) == [schema |-> df.schema, rows |-> RowsWithoutNull(df.rows, columns(df))]

\* The columns the drop_cols loop collects.
cols_to_drop(df, drop_threshold) ==
    {col \in columns(df) : exceeds(null_pct(null_count(df, col), len(df)), drop_threshold)}

\* A check that lets every strategy name through.
any_strategy(strategy) == TRUE

\* "strategy in ['flag', 'drop_rows', 'drop_cols']"
valid_strategy(strategy) == strategy \in {"flag", "drop_rows", "drop_cols"}

handle_missing_values(df, strategy, drop_threshold) ==
    IF ~valid_strategy(strategy)
    THEN Raised("ValueError", <<"Invalid strategy '", strategy, "'. Use: ",
                                "flag", ", ", "drop_rows", ", or ", "drop_cols">>)
    ELSE IF strategy = "flag" THEN Returned(with_flag(df))
    ELSE IF strategy = "drop_rows" THEN Returned(drop_nulls(df))
    ELSE IF strategy = "drop_cols" THEN Returned(drop(df, cols_to_drop(df, drop_threshold)))
    ELSE Returned(df)

\* The handler's inputs: small tables of three columns with nulls anywhere,
\* small tables that already hold a has_missing_values column, and tall tables
\* whose count column is null in its first rows; every strategy name and one
\* that is none; thresholds in whole percent.
MissingDom ==
    [year |-> {Null, Some(2018)}, count |-> {Null, Some(100)},
     bad_col |-> {Null, Some(100)},
     has_missing_values |-> {Null, Some(TRUE), Some(FALSE)}]

TallTables ==
    {[schema |-> [c \in {"year", "count"} |-> InputDType[c]],
      rows   |-> [i \in 1..n |-> [year |-> Some(2018),
                                  count |-> IF i <= k THEN Null ELSE Some(100)]]] :
        n \in 0..MaxTallRows, k \in 0..MaxTallRows}

MissingTables ==
    TablesOver({"year", "count", "bad_col"},
               [c \in {"year", "count", "bad_col"} |-> MissingDom[c]], MaxRows)
    \cup TablesOver({"count", "has_missing_values"},
               [c \in {"count", "has_missing_values"} |-> MissingDom[c]], MaxRows)
    \cup TallTables

Strategies == {"flag", "drop_rows", "drop_cols", "invalid"}

Thresholds == {0, 50, 55}

MissingArgs ==
    {[fn |-> "handle_missing_values", df |-> t, strategy |-> s, drop_threshold |-> d] :
        t \in MissingTables, s \in Strategies, d \in Thresholds}

InitMissing ==
    /\ args \in MissingArgs
    /\ ret = NoReturn
    /\ prev = NoReturn
    /\ calls = 0

CallHandleMissing ==
    /\ calls = 0
    /\ args.fn = "handle_missing_values"
    /\ ret' = handle_missing_values(args.df, args.strategy, args.drop_threshold)
    /\ prev' = ret
    /\ calls' = calls + 1
    /\ UNCHANGED args

NextMissing == CallHandleMissing

SpecMissing == InitMissing /\ [][NextMissing]_vars

(***************************************************************************)
(* Claims about the missing-value handler.                                 *)
(***************************************************************************)
Handled(strategy) ==
    /\ calls = 1
    /\ args.fn = "handle_missing_values"
    /\ args.strategy = strategy

\* C5: with strategy 'flag' no row is dropped and has_missing_values is true
\* on a row exactly when some column of that row of the input table is null.
C5_FlagIffAnyNull ==
    Handled("flag") =>
        /\ ret.raised = "none"
        /\ len(ret.value) = len(args.df)
        /\ \A i \in 1..len(args.df) :
              ret.value.rows[i]["has_missing_values"]
                = Some(\E c \in columns(args.df) : is_null(args.df.rows[i][c]))

\* A flagged table with a row null in one column only and a row without null.
C5_Witness ==
    /\ Handled("flag")
    /\ columns(args.df) = {"year", "count", "bad_col"}
    /\ len(args.df) = 2
    /\ is_null(args.df.rows[1]["count"])
    /\ ~is_null(args.df.rows[1]["year"])
    /\ \A c \in columns(args.df) : ~is_null(args.df.rows[2][c])
    /\ ret.value.rows[1]["has_missing_values"] = Some(TRUE)
    /\ ret.value.rows[2]["has_missing_values"] = Some(FALSE)

\* C6, as claimed: with strategy 'flag' the returned table has as many rows
\* and as many columns as the input.
C6_FlagSameShape ==
    Handled("flag") =>
        /\ ret.raised = "none"
        /\ len(ret.value) = len(args.df)
        /\ Cardinality(columns(ret.value)) = Cardinality(columns(args.df))

\* C6, amended: with strategy 'flag' the returned table has as many rows as
\* the input and the input's columns plus has_missing_values: one column
\* more, or as many when the input already holds a column of that name.
C6_FlagAddsOneColumn ==
    Handled("flag") =>
        /\ ret.raised = "none"
        /\ len(ret.value) = len(args.df)
        /\ columns(ret.value) = columns(args.df) \cup {"has_missing_values"}
        /\ Cardinality(columns(ret.value))
             = IF "has_missing_values" \in columns(args.df)
               THEN Cardinality(columns(args.df))
               ELSE Cardinality(columns(args.df)) + 1

\* A flagged table of two rows and three columns that comes back with four.
C6_Witness ==
    /\ Handled("flag")
    /\ ret.raised = "none"
    /\ len(args.df) = 2
    /\ Cardinality(columns(args.df)) = 3
    /\ Cardinality(columns(ret.value)) = 4

\* The rows of a table that hold no null, in the table's order.
HasNoNull(row) == \A c \in DOMAIN row : ~is_null(row[c])

\* C7: with strategy 'drop_rows' the returned table holds exactly the input
\* rows without a null, in their input order, under the input's columns.
C7_DropRowsExact ==
    Handled("drop_rows") =>
        /\ ret.raised = "none"
        /\ columns(ret.value) = columns(args.df)
        /\ ret.value.rows = SelectSeq(args.df.rows, HasNoNull)

\* A row with one null among its columns is dropped and the row after it kept.
C7_Witness ==
    /\ Handled("drop_rows")
    /\ columns(args.df) = {"year", "count", "bad_col"}
    /\ len(args.df) = 2
    /\ is_null(args.df.rows[1]["bad_col"])
    /\ ~is_null(args.df.rows[1]["year"])
    /\ HasNoNull(args.df.rows[2])
    /\ ret.value.rows = <<args.df.rows[2]>>

\* C8: with strategy 'drop_cols' the row count is unchanged and the columns
\* removed are exactly those whose null percentage, null_count / row_count *
\* 100, is strictly above drop_threshold: a column at the threshold stays and
\* an empty table loses no column.
C8_DropColsExact ==
    Handled("drop_cols") =>
        /\ ret.raised = "none"
        /\ len(ret.value) = len(args.df)
        /\ columns(ret.value) =
              {c \in columns(args.df) :
                  ~(/\ len(args.df) > 0
                    /\ 100 * null_count(args.df, c) > args.drop_threshold * len(args.df))}

\* C9: a strategy name other than flag, drop_rows and drop_cols makes the
\* call fail with an error whose message names the three valid strategies;
\* no table is returned, under no default strategy.
C9_InvalidStrategyRaises ==
    (calls = 1 /\ args.fn = "handle_missing_values"
        /\ args.strategy \notin {"flag", "drop_rows", "drop_cols"}) =>
        /\ ret.raised = "ValueError"
        /\ "value" \notin DOMAIN ret
        /\ \A s \in {"flag", "drop_rows", "drop_cols"} :
              \E i \in 1..Len(ret.message) : ret.message[i] = s

\* The call with the strategy 'invalid' on a table that has a null to flag.
C9_Witness ==
    /\ Handled("invalid")
    /\ ret.raised = "ValueError"
    /\ len(args.df) = 1
    /\ \E c \in columns(args.df) : is_null(args.df.rows[1][c])

(***************************************************************************)
(* detect_duplicates.                                                      *)
(***************************************************************************)
\* rows of the input table of the duplicate detector
MaxDupRows == 3

\* The columns rows are compared on: "if subset: ... else: ..." takes all the
\* columns when subset is None or empty.
key_columns(df, subset) == IF subset # {} THEN subset ELSE columns(df)

\* Two rows are duplicates when they agree, nulls included, on the key columns.
same_key(r1, r2, cols) == \A c \in cols : r1[c] = r2[c]

\* A retention that ignores the policy and always keeps the first occurrence.
kept_first(df, cols, keep) ==
    {i \in 1..Len(df.rows) :
        \A j \in 1..(i - 1) : ~same_key(df.rows[j], df.rows[i], cols)}

\* The indices of the rows df.unique(subset, keep) retains: of each group of
\* duplicates the first row, the last row, or (keep='none') no row unless the
\* group is a single row.
kept(df, cols, keep) ==
    {i \in 1..Len(df.rows) :
        CASE keep = "first" ->
                \A j \in 1..(i - 1) : ~same_key(df.rows[j], df.rows[i], cols)
          [] keep = "last" ->
                \A j \in (i + 1)..Len(df.rows) : ~same_key(df.rows[j], df.rows[i], cols)
          [] keep = "none" ->
                \A j \in 1..Len(df.rows) : j # i => ~same_key(df.rows[j], df.rows[i], cols)}

\* The orders in which n rows can be laid out.
Orders(S) == {f \in [1..Cardinality(S) -> S] : \A i, j \in DOMAIN f : i # j => f[i] # f[j]}

\* A de-duplication that removes, of the rows it should remove, only the first.
unique_once(df, cols, keep) ==
    LET gone == (1..Len(df.rows)) \ kept(df, cols, keep)
        stay == IF gone = {} THEN 1..Len(df.rows)
                ELSE (1..Len(df.rows)) \ {CHOOSE i \in gone : \A j \in gone : i <= j}
    IN  {[schema |-> df.schema, rows |-> [i \in 1..Cardinality(stay) |-> df.rows[f[i]]]] :
            f \in Orders(stay)}

\* df.unique(subset=subset, keep=keep), maintain_order left at its default
\* False: the retained rows, in an order polars does not promise.  The set of
\* the tables it can return.
unique(df, cols, keep) ==
    {[schema |-> df.schema,
      rows   |-> [i \in 1..Cardinality(kept(df, cols, keep)) |-> df.rows[f[i]]]] :
        f \in Orders(kept(df, cols, keep))}

\* What detect_duplicates can return: (duplicate_count, df_deduped).
detect_duplicates(df, subset, keep) ==
    {[raised |-> "none", duplicate_count |-> len(df) - len(d), value |-> d] :
        d \in unique(df, key_columns(df, subset), keep)}

\* The detector's inputs: a table of year, sector (null at times) and count,
\* any subset of its columns (the empty one for None) and the three policies.
DupDom ==
    [year |-> {Some(2018), Some(2019)}, sector |-> {Null, Some("Public")},
     count |-> {Some(100)}]

DupArgs ==
    {[fn |-> "detect_duplicates", df |-> t, subset |-> k, keep |-> p] :
        t \in TablesOver({"year", "sector", "count"}, DupDom, MaxDupRows),
        k \in SUBSET {"year", "sector", "count"},
        p \in {"first", "last", "none"}}

InitDuplicates ==
    /\ args \in DupArgs
    /\ ret = NoReturn
    /\ prev = NoReturn
    /\ calls = 0

\* dup_count, df_clean = detect_duplicates(df, subset, keep)
CallDetectDuplicates ==
    /\ calls = 0
    /\ args.fn = "detect_duplicates"
    /\ ret' \in detect_duplicates(args.df, args.subset, args.keep)
    /\ prev' = ret
    /\ calls' = calls + 1
    /\ UNCHANGED args

\* detect_duplicates(df_clean, subset, keep): the same call on the table the
\* first call returned.
CallDetectDuplicatesAgain ==
    /\ calls = 1
    /\ args.fn = "detect_duplicates"
    /\ ret.raised = "none"
    /\ ret' \in detect_duplicates(ret.value, args.subset, args.keep)
    /\ prev' = ret
    /\ calls' = calls + 1
    /\ UNCHANGED args

NextDuplicates == CallDetectDuplicates \/ CallDetectDuplicatesAgain

SpecDuplicates == InitDuplicates /\ [][NextDuplicates]_vars

(***************************************************************************)
(* Claims about the duplicate detector.                                    *)
(***************************************************************************)
\* The rows of a table as a bag: each row with the number of times it occurs.
RowBag(df) ==
    LET S == {df.rows[i] : i \in 1..Len(df.rows)}
    IN  [r \in S |-> Cardinality({i \in 1..Len(df.rows) : df.rows[i] = r})]

\* C10: detect_duplicates run on the table detect_duplicates returned, with
\* the same subset, reports 0 duplicates and returns a table of the same rows.
C10_DedupIdempotent ==
    (calls = 2 /\ args.fn = "detect_duplicates") =>
        /\ ret.raised = "none"
        /\ ret.duplicate_count = 0
        /\ RowBag(ret.value) = RowBag(prev.value)

\* A second run after a first one that removed two duplicates on a proper
\* subset of the columns.
C10_Witness ==
    /\ calls = 2
    /\ args.fn = "detect_duplicates"
    /\ args.subset = {"year"}
    /\ prev.duplicate_count = 2
    /\ len(prev.value) = 1
    /\ ret.duplicate_count = 0

\* The key of a row: its cells on the key columns.
KeyOf(row, cols) == [c \in cols |-> row[c]]

\* The index of the occurrence keep='first' / keep='last' names in the group
\* of the rows that share the key of row i.
Occurrence(df, cols, keep, i) ==
    LET group == {j \in 1..Len(df.rows) : same_key(df.rows[j], df.rows[i], cols)}
    IN  IF keep = "first" THEN CHOOSE j \in group : \A k \in group : j <= k
                          ELSE CHOOSE j \in group : \A k \in group : j >= k

\* The first call of detect_duplicates has returned.
Deduplicated == calls = 1 /\ args.fn = "detect_duplicates"

\* C11: with keep='first' or keep='last' the returned table holds, for each
\* group of rows equal on the subset (all the columns when it is omitted),
\* exactly one row, the first or the last occurrence of the group, and the
\* reported count is rows_before - rows_after, the sum over the groups of
\* (group size - 1).
C11_KeepOnePerGroup ==
    (Deduplicated /\ args.keep \in {"first", "last"}) =>
        LET cols == key_columns(args.df, args.subset)
            out  == ret.value
            keys == {KeyOf(args.df.rows[i], cols) : i \in 1..len(args.df)}
        IN  /\ ret.raised = "none"
            /\ \A i \in 1..len(args.df) :
                  LET same == {j \in 1..len(out) :
                                 same_key(out.rows[j], args.df.rows[i], cols)}
                  IN  /\ Cardinality(same) = 1
                      /\ \A j \in same :
                            out.rows[j] =
                              args.df.rows[Occurrence(args.df, cols, args.keep, i)]
            /\ len(out) = Cardinality(keys)
            /\ ret.duplicate_count = len(args.df) - len(out)
            /\ ret.duplicate_count = len(args.df) - Cardinality(keys)

\* keep='last' on three rows of one year whose first and last rows differ in
\* sector: the one row returned is the last, and two rows are counted.
C11_Witness ==
    /\ Deduplicated
    /\ args.keep = "last"
    /\ args.subset = {"year"}
    /\ len(args.df) = 3
    /\ \A i \in 1..3 : args.df.rows[i]["year"] = Some(2018)
    /\ args.df.rows[1]["sector"] = Null
    /\ args.df.rows[3]["sector"] = Some("Public")
    /\ ret.duplicate_count = 2
    /\ len(ret.value) = 1
    /\ ret.value.rows[1]["sector"] = Some("Public")

(***************************************************************************)
(* detect_and_flag_outliers.                                               *)
(***************************************************************************)
\* rows of the drawn input tables of the outlier flagger
MaxOutRows == 3

\* df[col]: the cells of a column, in row order.
series(df, col) == [i \in 1..Len(df.rows) |-> df.rows[i][col]]

\* The values of the non-null cells of a column: what mean, std and quantile
\* are computed on.
RECURSIVE non_null(_)
non_null(cells) ==
    IF cells = <<>> THEN <<>>
    ELSE (IF is_null(Head(cells)) THEN <<>> ELSE <<Head(cells)[1]>>)
            \o non_null(Tail(cells))

RECURSIVE sum(_)
sum(vals) == IF vals = <<>> THEN 0 ELSE Head(vals) + sum(Tail(vals))

\* n^2 times the sum of the squared deviations from the mean: with n values
\* of sum S, the sum over the values v of (n*v - S)^2.
sq_dev(vals) ==
    sum([i \in 1..Len(vals) |->
            (Len(vals) * vals[i] - sum(vals)) * (Len(vals) * vals[i] - sum(vals))])

\* df[col].std() == 0, for a column of at least two values: the sample
\* standard deviation is zero iff the values are all equal.
std_is_zero(vals) == sq_dev(vals) = 0

\* (pl.col(col) - mean).abs() > threshold * std on one value v, with
\* mean = S / n and std the sample standard deviation (ddof = 1), in exact
\* arithmetic: |v - S/n| > t * sqrt(Q / (n^2 * (n - 1))) with Q = sq_dev, which
\* is (n - 1) * (n*v - S)^2 > t^2 * Q.  The threshold t is num / den.
deviates(vals, threshold, v) ==
    LET n == Len(vals)
        d == n * v - sum(vals)
    IN  (n - 1) * d * d * threshold.den * threshold.den
            > threshold.num * threshold.num * sq_dev(vals)

\* The k-th smallest (k from 0) of the values.
kth(vals, k) ==
    LET S == {vals[i] : i \in 1..Len(vals)}
    IN  CHOOSE v \in S :
            /\ Cardinality({i \in 1..Len(vals) : vals[i] < v}) <= k
            /\ k < Cardinality({i \in 1..Len(vals) : vals[i] <= v})

\* df[col].quantile(q) with q = q4 / 4 and polars' default interpolation
\* 'nearest': the sorted value at index round((n - 1) * q), halves rounded up.
quantile(vals, q4) == kth(vals, (2 * (Len(vals) - 1) * q4 + 4) \div 8)

\* (pl.col(col) < Q1 - threshold * IQR) | (pl.col(col) > Q3 + threshold * IQR)
\* on one value v.
outside_fences(vals, threshold, v) ==
    LET Q1  == quantile(vals, 1)
        Q3  == quantile(vals, 3)
        IQR == Q3 - Q1
    IN  \/ v * threshold.den < Q1 * threshold.den - threshold.num * IQR
        \/ v * threshold.den > Q3 * threshold.den + threshold.num * IQR

\* The column outlier_condition evaluates to: pl.lit(False) on every row when
\* the spread is zero, else the comparison, which is null on a null cell.
outlier_condition(df, col, method, threshold) ==
    LET vals == non_null(series(df, col))
        zero == IF method = "zscore" THEN std_is_zero(vals)
                ELSE quantile(vals, 3) - quantile(vals, 1) = 0
    IN  [i \in 1..len(df) |->
            IF zero THEN Some(FALSE)
            ELSE IF is_null(df.rows[i][col]) THEN Null
            ELSE IF method = "zscore"
                 THEN Some(deviates(vals, threshold, df.rows[i][col][1]))
                 ELSE Some(outside_fences(vals, threshold, df.rows[i][col][1]))]

\* Whether computing the condition of a column raises.  std() of fewer than
\* two values is None, and None == 0 is False, so threshold * std is a float
\* times None; quantile() of no value is None, so Q3 - Q1 is None - None.
statistic_is_none(df, col, method) ==
    LET n == Len(non_null(series(df, col)))
    IN  IF method = "zscore" THEN n <= 1 ELSE n = 0

\* f'{col}_outlier'
outlier_name(col) == col \o "_outlier"

\* pl.any_horizontal(outlier_cols) on one row, in Kleene logic: true when a
\* flag is true, else null when a flag is null, else false.
any_horizontal(row, cols) ==
    IF \E c \in cols : row[c] = Some(TRUE) THEN Some(TRUE)
    ELSE IF \E c \in cols : is_null(row[c]) THEN Null
    ELSE Some(FALSE)

\* detect_and_flag_outliers(df, numeric_columns, threshold, method): the
\* method is checked first; each listed column the table holds gets its
\* {col}_outlier column, the listed columns the table lacks are skipped; when
\* a {col}_outlier column exists, outlier_flag is added.
detect_and_flag_outliers(df, numeric_columns, threshold, method) ==
    IF method \notin {"zscore", "iqr"}
    THEN Raised("ValueError", <<"Invalid method", method, "zscore", "iqr">>)
    ELSE
    LET checked == numeric_columns \cap columns(df)
        flags   == {outlier_name(c) : c \in checked}
        of(f)   == CHOOSE c \in checked : outlier_name(c) = f
        cols1   == columns(df) \cup flags
        df1     ==
            [schema |-> [c \in cols1 |->
                            IF c \in flags THEN "Boolean" ELSE df.schema[c]],
             rows   |-> [i \in 1..len(df) |->
                            [c \in cols1 |->
                                IF c \in flags
                                THEN outlier_condition(df, of(c), method, threshold)[i]
                                ELSE df.rows[i][c]]]]
        outlier_cols == {outlier_name(c) : c \in numeric_columns} \cap cols1
        cols2   == cols1 \cup {"outlier_flag"}
        df2     ==
            [schema |-> [c \in cols2 |->
                            IF c = "outlier_flag" THEN "Boolean" ELSE df1.schema[c]],
             rows   |-> [i \in 1..len(df) |->
                            [c \in cols2 |->
                                IF c = "outlier_flag"
                                THEN any_horizontal(df1.rows[i], outlier_cols)
                                ELSE df1.rows[i][c]]]]
    IN  IF \E c \in checked : statistic_is_none(df, c, method)
        THEN Raised("TypeError", <<"unsupported operand type(s)", "NoneType">>)
        ELSE IF outlier_cols # {} THEN Returned(df2)
        ELSE Returned(df1)

\* The flagger's inputs.  The drawn tables hold year and count, some also
\* num_beds; count is null at times.  The tables of the unit tests are added
\* whole.  A threshold is the fraction num / den.
OutlierDom ==
    [year |-> {Some(2018)},
     count |-> {Null, Some(100), Some(110), Some(500)},
     num_beds |-> {Some(10), Some(90)}]

\* pl.DataFrame({'year': [...], 'count': counts}) of the unit tests.
CountTable(counts) ==
    [schema |-> [c \in {"year", "count"} |-> InputDType[c]],
     rows   |-> [i \in 1..Len(counts) |->
                    [year |-> Some(2017 + i), count |-> Some(counts[i])]]]

TestTables ==
    {CountTable(<<100, 110, 105, 500, 115>>),
     CountTable(<<100, 110, 105, 115, 500>>),
     CountTable(<<100, 105, 110, 115, 120>>),
     CountTable(<<100, 100, 100, 100>>)}

OutlierTables ==
    TablesOver({"year", "count"}, OutlierDom, MaxOutRows)
        \cup TablesOver({"year", "count", "num_beds"}, OutlierDom, MaxOutRows)
        \cup TestTables

OutlierThresholds ==
    {[num |-> 1, den |-> 1], [num |-> 3, den |-> 2],
     [num |-> 2, den |-> 1], [num |-> 3, den |-> 1]}

\* The listed columns: bonus is a column no table of the model holds.
NumericColumns == {{"count"}, {"count", "num_beds"}, {"count", "bonus"}, {"bonus"}}

\* The arguments are one of the flagger's calls.
IsOutlierCall(a) ==
    \E t \in OutlierTables, k \in NumericColumns, th \in OutlierThresholds,
       m \in {"zscore", "iqr", "invalid"} :
        a = [fn |-> "detect_and_flag_outliers", df |-> t, numeric_columns |-> k,
             threshold |-> th, method |-> m]

InitOutliers ==
    /\ IsOutlierCall(args)
    /\ ret = NoReturn
    /\ prev = NoReturn
    /\ calls = 0

\* df = detect_and_flag_outliers(df, numeric_columns, threshold, method)
CallFlagOutliers ==
    /\ calls = 0
    /\ args.fn = "detect_and_flag_outliers"
    /\ ret' = detect_and_flag_outliers(args.df, args.numeric_columns,
                                       args.threshold, args.method)
    /\ prev' = ret
    /\ calls' = calls + 1
    /\ UNCHANGED args

NextOutliers == CallFlagOutliers

SpecOutliers == InitOutliers /\ [][NextOutliers]_vars

(***************************************************************************)
(* Claims about the outlier flagger.                                       *)
(***************************************************************************)
\* The call of detect_and_flag_outliers has been made.
Flagged == calls = 1 /\ args.fn = "detect_and_flag_outliers"

\* A column of zero variance: it holds values, and they are all equal.
ZeroVariance(df, col) ==
    /\ col \in columns(df)
    /\ \E i \in 1..len(df) : ~is_null(df.rows[i][col])
    /\ \A i, j \in 1..len(df) :
          (~is_null(df.rows[i][col]) /\ ~is_null(df.rows[j][col]))
              => df.rows[i][col] = df.rows[j][col]

\* No row of the returned table is flagged in the given column.
NoRowFlagged(df, flag) ==
    /\ flag \in columns(df)
    /\ \A i \in 1..len(df) : df.rows[i][flag] = Some(FALSE)

\* C12: on a table whose checked column has zero variance (all its values
\* equal, a single row included), with the method zscore or iqr, the call
\* returns without raising and flags no row in count_outlier or outlier_flag.
C12_ZeroVarianceNoFlags ==
    (/\ Flagged
     /\ args.method \in {"zscore", "iqr"}
     /\ args.numeric_columns = {"count"}
     /\ ZeroVariance(args.df, "count")) =>
        /\ ret.raised = "none"
        /\ NoRowFlagged(ret.value, "count_outlier")
        /\ NoRowFlagged(ret.value, "outlier_flag")

\* The table of test_zscore_outlier_detection.
IsSpikeCall ==
    /\ Flagged
    /\ args.df = CountTable(<<100, 110, 105, 500, 115>>)
    /\ args.numeric_columns = {"count"}
    /\ args.method = "zscore"
    /\ args.threshold = [num |-> 2, den |-> 1]

\* C13: with the method zscore and the threshold 2.0 the column
\* [100, 110, 105, 500, 115] has exactly one flagged row, the one holding 500.
C13_SpikeFlagged ==
    IsSpikeCall =>
        /\ ret.raised = "none"
        /\ \A i \in 1..5 :
              ret.value.rows[i]["count_outlier"] = Some(i = 4)

\* C14: the call adds one Boolean column {col}_outlier for each listed column
\* the table holds and a column outlier_flag that is, on every row, the OR of
\* the per-column flags; listed columns the table lacks are skipped without
\* raising; the row count and the original columns are unchanged.
C14_FlagColumns ==
    (Flagged /\ args.method \in {"zscore", "iqr"}) =>
        LET checked == args.numeric_columns \cap columns(args.df)
            out     == ret.value
        IN  /\ ret.raised = "none"
            /\ columns(out) = columns(args.df)
                                \cup {outlier_name(c) : c \in checked}
                                \cup {"outlier_flag"}
            /\ \A c \in checked : out.schema[outlier_name(c)] = "Boolean"
            /\ out.schema["outlier_flag"] = "Boolean"
            /\ len(out) = len(args.df)
            /\ \A i \in 1..len(out) :
                  /\ \A c \in columns(args.df) : out.rows[i][c] = args.df.rows[i][c]
                  /\ out.rows[i]["outlier_flag"] =
                        Some(\E c \in checked :
                                out.rows[i][outlier_name(c)] = Some(TRUE))

\* No value of a drawn input sits exactly on the z-score threshold, where the
\* floating-point comparison of the code could fall on either side.
OffThreshold ==
    (calls = 0 /\ args.fn = "detect_and_flag_outliers") =>
        \A c \in args.numeric_columns \cap columns(args.df) :
            LET vals == non_null(series(args.df, c))
                n    == Len(vals)
            IN  \A i \in 1..n :
                    \/ sq_dev(vals) = 0
                    \/ (n - 1) * (n * vals[i] - sum(vals)) * (n * vals[i] - sum(vals))
                            * args.threshold.den * args.threshold.den
                         # args.threshold.num * args.threshold.num * sq_dev(vals)

(***************************************************************************)
(* The validators of src/src/data_processing/validation.py.                *)
(*                                                                         *)
(* A validator returns True or raises.  The message of an error is kept as *)
(* what it names: the columns, the string values and the numbers that are  *)
(* formatted into it.                                                      *)
(***************************************************************************)
\* rows of the tables handed to the validators
MaxValRows == 2

Passed == [raised |-> "none", value |-> TRUE]

Message(text, cols, values, numbers) ==
    [text |-> text, columns |-> cols, values |-> values, numbers |-> numbers]

\* validate_schema(df, expected_schema): the missing columns first, all of
\* them in one ValueError; then the dtype mismatches, all of them in one
\* TypeError.
validate_schema(df, expected_schema) ==
    LET missing_cols == DOMAIN expected_schema \ columns(df)
        type_mismatches ==
            {c \in DOMAIN expected_schema \cap columns(df) :
                df.schema[c] # expected_schema[c]}
    IN  IF missing_cols # {}
        THEN Raised("ValueError",
                    Message("Missing required columns", missing_cols, {}, {}))
        ELSE IF type_mismatches # {}
        THEN Raised("TypeError",
                    Message("Data type mismatches", type_mismatches,
                            {expected_schema[c] : c \in type_mismatches}
                                \cup {df.schema[c] : c \in type_mismatches}, {}))
        ELSE Passed

\* df[column].min() and df[column].max() of a column that holds a value.
min_of(vals) == CHOOSE v \in {vals[i] : i \in 1..Len(vals)} :
                    \A i \in 1..Len(vals) : v <= vals[i]

max_of(vals) == CHOOSE v \in {vals[i] : i \in 1..Len(vals)} :
                    \A i \in 1..Len(vals) : v >= vals[i]

\* validate_value_ranges(df, column, min_value, max_value, allow_null): a
\* bound that is not given is Null.
validate_value_ranges(df, column, min_value, max_value, allow_null) ==
    IF column \notin columns(df)
    THEN Raised("ValueError", Message("not found in DataFrame", {column}, {}, {}))
    ELSE
    LET nulls == null_count(df, column)
        vals  == non_null(series(df, column))
    IN  IF nulls > 0 /\ ~allow_null
        THEN Raised("ValueError",
                    Message("contains null values (not allowed)", {column}, {}, {nulls}))
        ELSE IF ~is_null(min_value) /\ vals # <<>> /\ min_of(vals) < min_value[1]
        THEN Raised("ValueError",
                    Message("has value < minimum", {column}, {},
                            {min_of(vals), min_value[1]}))
        ELSE IF ~is_null(max_value) /\ vals # <<>> /\ max_of(vals) > max_value[1]
        THEN Raised("ValueError",
                    Message("has value > maximum", {column}, {},
                            {max_of(vals), max_value[1]}))
        ELSE Passed

\* A categorical check that looks at the nulls only.
validate_categorical_nulls(df, column, valid_values, allow_null) ==
    IF column \notin columns(df)
    THEN Raised("ValueError", Message("not found in DataFrame", {column}, {}, {}))
    ELSE IF null_count(df, column) > 0 /\ ~allow_null
    THEN Raised("ValueError",
                Message("contains null values (not allowed)", {column}, {},
                        {null_count(df, column)}))
    ELSE Passed

\* validate_categorical_values(df, column, valid_values, allow_null); the
\* error for invalid values also lists the allowed ones.
validate_categorical_values(df, column, valid_values, allow_null) ==
    IF column \notin columns(df)
    THEN Raised("ValueError", Message("not found in DataFrame", {column}, {}, {}))
    ELSE
    LET nulls == null_count(df, column)
        vals  == non_null(series(df, column))
        unique_values  == {vals[i] : i \in 1..Len(vals)}
        invalid_values == unique_values \ valid_values
    IN  IF nulls > 0 /\ ~allow_null
        THEN Raised("ValueError",
                    Message("contains null values (not allowed)", {column}, {}, {nulls}))
        ELSE IF invalid_values # {}
        THEN Raised("ValueError",
                    Message("contains invalid values", {column}, invalid_values, {})
                        @@ [allowed |-> valid_values])
        ELSE Passed

\* validate_no_duplicates(df, subset): df.unique(subset=subset) holds one row
\* for each distinct key.
validate_no_duplicates(df, subset) ==
    IF subset \ columns(df) # {}
    THEN Raised("ValueError",
                Message("Subset columns not found", subset \ columns(df), {}, {}))
    ELSE
    LET unique_rows == Cardinality({KeyOf(df.rows[i], subset) : i \in 1..len(df)})
        duplicate_count == len(df) - unique_rows
    IN  IF duplicate_count > 0
        THEN Raised("ValueError",
                    Message("Found duplicate records", subset, {}, {duplicate_count}))
        ELSE Passed

\* The critical columns validate_completeness reports: those the table lacks
\* and those whose share of non-null rows, in percent, is below the target;
\* on a table without rows the share is 0.
incomplete(df, critical_columns, target_completeness) ==
    {c \in critical_columns :
        \/ c \notin columns(df)
        \/ IF len(df) > 0
           THEN (len(df) - null_count(df, c)) * 100 < target_completeness * len(df)
           ELSE 0 < target_completeness}

\* validate_completeness(df, critical_columns, target_completeness): the
\* failures of all the columns in one ValueError.
validate_completeness(df, critical_columns, target_completeness) ==
    LET failures == incomplete(df, critical_columns, target_completeness)
    IN  IF failures # {}
        THEN Raised("ValueError",
                    Message("Completeness validation failed", failures, {},
                            {target_completeness}))
        ELSE Passed

\* A check of a validator: its name and what the call returned or raised.
Check(name, result) == [name |-> name, result |-> result]

\* The names of the first k checks: the checks that were started.
Started(checks, k) == [i \in 1..k |-> checks[i].name]

\* A run of the checks that goes through all of them and raises one error
\* naming everything the failing checks name.
raise_all(checks) ==
    LET failing == {i \in 1..Len(checks) : checks[i].result.raised # "none"}
        first   == CHOOSE i \in failing : \A j \in failing : i <= j
    IN  IF failing = {}
        THEN [raised |-> "none", value |-> TRUE, log |-> Started(checks, Len(checks))]
        ELSE [raised  |-> checks[first].result.raised,
              message |-> Message("Validation failed",
                            UNION {checks[i].result.message.columns : i \in failing},
                            UNION {checks[i].result.message.values : i \in failing},
                            UNION {checks[i].result.message.numbers : i \in failing}),
              log     |-> Started(checks, Len(checks))]

\* The checks of a validator are plain calls one after the other: the first
\* that raises ends the validator with its error, the checks after it are
\* not started; when none raises the validator returns True.
raise_first(checks) ==
    LET failing == {i \in 1..Len(checks) : checks[i].result.raised # "none"}
        first   == CHOOSE i \in failing : \A j \in failing : i <= j
    IN  IF failing = {}
        THEN [raised |-> "none", value |-> TRUE, log |-> Started(checks, Len(checks))]
        ELSE [raised  |-> checks[first].result.raised,
              message |-> checks[first].result.message,
              log     |-> Started(checks, first)]

\* expected_schema without the two flag columns.
expected_schema_without_flags ==
    [year |-> "Int32", sector |-> "Categorical", profession |-> "Categorical",
     count |-> "Int32", source_table |-> "String"]

\* expected_schema of validate_workforce_data
expected_schema ==
    [year |-> "Int32", sector |-> "Categorical", profession |-> "Categorical",
     count |-> "Int32", source_table |-> "String", outlier_flag |-> "Boolean",
     has_missing_values |-> "Boolean"]

\* The key validate_workforce_data checks duplicates on.
workforce_key ==
    {"year", "sector", "profession", "specialist_category", "nurse_type", "source_table"}

\* The checks with the duplicates check moved before the completeness check.
workforce_checks_unique_first(df, config) ==
    <<Check("schema", validate_schema(df, expected_schema)),
      Check("year_range",
            validate_value_ranges(df, "year",
                Some(config.value_constraints.workforce.year_min),
                Some(config.value_constraints.workforce.year_max), FALSE)),
      Check("count_range",
            validate_value_ranges(df, "count",
                Some(config.value_constraints.workforce.min_count), Null, FALSE)),
      Check("sector_values",
            validate_categorical_values(df, "sector", config.valid_values.sectors, FALSE)),
      Check("profession_values",
            validate_categorical_values(df, "profession",
                config.valid_values.professions, FALSE)),
      Check("no_duplicates", validate_no_duplicates(df, workforce_key)),
      Check("completeness",
            validate_completeness(df, {"year", "sector", "profession", "count"},
                config.quality_thresholds.completeness_target))>>

\* The checks of validate_workforce_data, in the order of its calls.
workforce_checks(df, config) ==
    <<Check("schema", validate_schema(df, expected_schema)),
      Check("year_range",
            validate_value_ranges(df, "year",
                Some(config.value_constraints.workforce.year_min),
                Some(config.value_constraints.workforce.year_max), FALSE)),
      Check("count_range",
            validate_value_ranges(df, "count",
                Some(config.value_constraints.workforce.min_count), Null, FALSE)),
      Check("sector_values",
            validate_categorical_values(df, "sector", config.valid_values.sectors, FALSE)),
      Check("profession_values",
            validate_categorical_values(df, "profession",
                config.valid_values.professions, FALSE)),
      Check("completeness",
            validate_completeness(df, {"year", "sector", "profession", "count"},
                config.quality_thresholds.completeness_target)),
      Check("no_duplicates", validate_no_duplicates(df, workforce_key))>>

\* validate_workforce_data(df, config)
validate_workforce_data(df, config) == raise_first(workforce_checks(df, config))

\* The columns validate_capacity_data requires.
expected_columns == {"year", "sector", "num_facilities", "source_table"}

\* The inline check of validate_capacity_data for its required columns.
capacity_columns_present(df) ==
    IF expected_columns \ columns(df) # {}
    THEN Raised("ValueError",
                Message("Missing required columns in capacity data",
                        expected_columns \ columns(df), {}, {}))
    ELSE Passed

\* The checks of validate_capacity_data, in the order of its calls; the
\* sector may be null, and there is no duplicates check.
capacity_checks(df, config) ==
    <<Check("schema", capacity_columns_present(df)),
      Check("year_range",
            validate_value_ranges(df, "year",
                Some(config.value_constraints.capacity.year_min),
                Some(config.value_constraints.capacity.year_max), FALSE)),
      Check("count_range",
            validate_value_ranges(df, "num_facilities",
                Some(config.value_constraints.capacity.min_count), Null, FALSE)),
      Check("sector_values",
            validate_categorical_values(df, "sector", config.valid_values.sectors, TRUE)),
      Check("completeness",
            validate_completeness(df, {"year", "num_facilities"},
                config.quality_thresholds.completeness_target))>>

\* validate_capacity_data(df, config)
validate_capacity_data(df, config) == raise_first(capacity_checks(df, config))

\* The validation rules of the configuration: the years and the sectors of
\* the validators' docstring examples, the professions of the three
\* workforce tables, counts from 0 and a completeness target of 100 percent.
ValidationConfig ==
    [value_constraints |->
        [workforce |-> [year_min |-> 2006, year_max |-> 2019, min_count |-> 0],
         capacity  |-> [year_min |-> 2006, year_max |-> 2019, min_count |-> 0]],
     valid_values |->
        [sectors     |-> {"Public", "Private", "Not-for-Profit"},
         professions |-> {"Doctor", "Nurse", "Pharmacist"}],
     quality_thresholds |-> [completeness_target |-> 100]]

\* The dtypes of a cleaned table, after convert_data_types and the flaggers.
CleanDType ==
    [year |-> "Int32", sector |-> "Categorical", profession |-> "Categorical",
     count |-> "Int32", source_table |-> "String", outlier_flag |-> "Boolean",
     has_missing_values |-> "Boolean", specialist_category |-> "Categorical",
     nurse_type |-> "Categorical", num_facilities |-> "Int32"]

\* All tables over the given columns with the given dtypes and at most n rows.
TypedTables(cols, dom, dtypes, n) ==
    {[schema |-> [c \in cols |-> dtypes[c]], rows |-> rs] :
        rs \in SeqsUpTo(RowsOver(cols, dom), n)}

\* The table with the given columns read as Int64.
retyped(df, cols) ==
    [schema |-> [c \in columns(df) |-> IF c \in cols THEN "Int64" ELSE df.schema[c]],
     rows   |-> df.rows]

\* The cleaned workforce tables handed to the validator: the year is at times
\* null or before year_min, the sector and the profession at times outside the
\* vocabulary, the count at times negative.
WorkforceValDom ==
    [year |-> {Null, Some(2005), Some(2018)},
     sector |-> {Some("Public"), Some("Foo")},
     profession |-> {Some("Doctor"), Some("Vet")},
     count |-> {Some(0 - 5), Some(100)},
     source_table |-> {Some("doctors")},
     outlier_flag |-> {Some(FALSE)},
     has_missing_values |-> {Some(FALSE)},
     specialist_category |-> {Null},
     nurse_type |-> {Null}]

\* A table as the cleaner leaves it, and the same table without its count
\* column, without its nurse_type column, and with columns left uncast.
SchemaVariants(df) ==
    {df, drop(df, {"count"}), drop(df, {"nurse_type"}),
     retyped(df, {"year"}), retyped(df, {"year", "count"})}

CapacityValDom ==
    [year |-> {Some(2005), Some(2018)},
     sector |-> {Null, Some("Public"), Some("Foo")},
     num_facilities |-> {Null, Some(10)},
     source_table |-> {Some("hospital_beds")}]

\* The validators' inputs: a cleaned workforce table in one of its variants,
\* or a cleaned capacity table, with or without its num_facilities column.
InitValidation ==
    /\ \/ \E t \in TypedTables(DOMAIN WorkforceValDom, WorkforceValDom,
                               CleanDType, MaxValRows) :
            \E v \in SchemaVariants(t) :
                args = [fn |-> "validate_workforce_data", df |-> v,
                        config |-> ValidationConfig]
       \/ \E t \in TypedTables(DOMAIN CapacityValDom, CapacityValDom,
                               CleanDType, MaxValRows) :
            \E v \in {t, drop(t, {"num_facilities"})} :
                args = [fn |-> "validate_capacity_data", df |-> v,
                        config |-> ValidationConfig]
    /\ ret = NoReturn
    /\ prev = NoReturn
    /\ calls = 0

\* validate_workforce_data(workforce_df, config)
CallValidateWorkforce ==
    /\ calls = 0
    /\ args.fn = "validate_workforce_data"
    /\ ret' = validate_workforce_data(args.df, args.config)
    /\ prev' = ret
    /\ calls' = calls + 1
    /\ UNCHANGED args

\* validate_capacity_data(capacity_df, config)
CallValidateCapacity ==
    /\ calls = 0
    /\ args.fn = "validate_capacity_data"
    /\ ret' = validate_capacity_data(args.df, args.config)
    /\ prev' = ret
    /\ calls' = calls + 1
    /\ UNCHANGED args

NextValidation == CallValidateWorkforce \/ CallValidateCapacity

SpecValidation == InitValidation /\ [][NextValidation]_vars

(***************************************************************************)
(* Claims about the validators.                                            *)
(***************************************************************************)
\* validate_workforce_data has been called.
Validated == calls = 1 /\ args.fn = "validate_workforce_data"

\* The values of the sector column that are outside the configured sectors.
IllegalSectors(df, config) ==
    IF "sector" \notin columns(df) THEN {}
    ELSE {df.rows[i]["sector"][1] :
            i \in {j \in 1..len(df) : ~is_null(df.rows[j]["sector"])}}
         \ config.valid_values.sectors

\* What each check of the workforce validator does on its own on a table.
Outcome(name, df, config) ==
    CASE name = "schema" -> validate_schema(df, expected_schema)
      [] name = "year_range" ->
            validate_value_ranges(df, "year",
                Some(config.value_constraints.workforce.year_min),
                Some(config.value_constraints.workforce.year_max), FALSE)
      [] name = "count_range" ->
            validate_value_ranges(df, "count",
                Some(config.value_constraints.workforce.min_count), Null, FALSE)
      [] name = "sector_values" ->
            validate_categorical_values(df, "sector", config.valid_values.sectors, FALSE)
      [] name = "profession_values" ->
            validate_categorical_values(df, "profession",
                config.valid_values.professions, FALSE)
      [] name = "completeness" ->
            validate_completeness(df, {"year", "sector", "profession", "count"},
                config.quality_thresholds.completeness_target)
      [] name = "no_duplicates" -> validate_no_duplicates(df, workforce_key)

\* The checks a table violates, as positions in a given order of the checks.
Violated(order, df, config) ==
    {i \in 1..Len(order) : Outcome(order[i], df, config).raised # "none"}

\* C15 as stated: the validator fails with an error naming 'count' when the
\* table lacks the count column, and with an error naming the illegal value
\* when the sector column holds a value outside the valid sectors; in neither
\* case does it return True.
C15_NamesCountAndValue ==
    Validated =>
        /\ "count" \notin columns(args.df) =>
              (ret.raised # "none" /\ "count" \in ret.message.columns)
        /\ IllegalSectors(args.df, args.config) # {} =>
              (/\ ret.raised # "none"
               /\ IllegalSectors(args.df, args.config) \subseteq ret.message.values)

\* The checks made before the sector values are looked at pass: the schema,
\* the year range, the count range, and no sector is null.
ReachesSectorValues(df, config) ==
    /\ \A n \in {"schema", "year_range", "count_range"} :
          Outcome(n, df, config).raised = "none"
    /\ null_count(df, "sector") = 0

\* C15, amended: without the count column the validator fails with an error
\* naming 'count'; with an illegal sector value it fails, and when the checks
\* made before the sector check pass the error names exactly the illegal
\* values; in neither case does it return True.
C15_NamesCountOrFirstFailure ==
    Validated =>
        /\ "count" \notin columns(args.df) =>
              (ret.raised = "ValueError" /\ "count" \in ret.message.columns)
        /\ IllegalSectors(args.df, args.config) # {} => ret.raised # "none"
        /\ (/\ IllegalSectors(args.df, args.config) # {}
            /\ ReachesSectorValues(args.df, args.config)) =>
              /\ ret.raised = "ValueError"
              /\ ret.message.columns = {"sector"}
              /\ ret.message.values = IllegalSectors(args.df, args.config)

\* A table whose only fault is the sector 'Foo' of its second row.
C15_Witness ==
    /\ Validated
    /\ len(args.df) = 2
    /\ ReachesSectorValues(args.df, args.config)
    /\ args.df.rows[1]["sector"] = Some("Public")
    /\ args.df.rows[2]["sector"] = Some("Foo")
    /\ ret.raised = "ValueError"
    /\ ret.message.values = {"Foo"}

IsPrefix(s, t) == Len(s) <= Len(t) /\ \A i \in 1..Len(s) : s[i] = t[i]

\* The order of the checks as the claim has it: uniqueness before
\* completeness.
ClaimedOrder ==
    <<"schema", "year_range", "count_range", "sector_values", "profession_values",
      "no_duplicates", "completeness">>

\* The order with completeness before uniqueness.
CompletenessFirstOrder ==
    <<"schema", "year_range", "count_range", "sector_values", "profession_values",
      "completeness", "no_duplicates">>

\* The checks are started in the given order, up to and including the
\* earliest one the table violates, and the error raised is that check's.
FollowsOrder(order) ==
    LET failing == Violated(order, args.df, args.config)
        first   == CHOOSE i \in failing : \A j \in failing : i <= j
    IN  /\ IsPrefix(ret.log, order)
        /\ IF failing = {}
           THEN ret.raised = "none" /\ ret.log = order
           ELSE /\ Len(ret.log) = first
                /\ ret.raised = Outcome(order[first], args.df, args.config).raised
                /\ ret.message = Outcome(order[first], args.df, args.config).message

\* C19 as stated: the validator makes its checks in the order schema, value
\* ranges, categorical domains, uniqueness, completeness, and on a table that
\* violates several checks raises the error of the earliest in this order.
C19_UniquenessBeforeCompleteness == Validated => FollowsOrder(ClaimedOrder)

\* C19, amended: the order is schema, value ranges (year, count), categorical
\* domains (sector, profession), completeness, uniqueness, and on a table that
\* violates several checks the error raised is that of the earliest in this
\* order.
C19_CompletenessBeforeUniqueness == Validated => FollowsOrder(CompletenessFirstOrder)

\* Two equal rows with the sector 'Foo' violate the sector check and the
\* uniqueness check; the error is the sector's and uniqueness is not reached.
C19_Witness ==
    /\ Validated
    /\ len(args.df) = 2
    /\ args.df.rows[1] = args.df.rows[2]
    /\ {CompletenessFirstOrder[i] :
            i \in Violated(CompletenessFirstOrder, args.df, args.config)}
          = {"sector_values", "no_duplicates"}
    /\ ret.raised = "ValueError"
    /\ ret.message.columns = {"sector"}
    /\ ret.log = <<"schema", "year_range", "count_range", "sector_values">>

\* C20 as stated: all failures are accumulated before raising; on a table
\* that violates more than one check the failure reports every violated check.
C20_ReportsEveryFailure ==
    (Validated /\ ret.raised # "none") =>
        \A i \in Violated(CompletenessFirstOrder, args.df, args.config) :
            LET m == Outcome(CompletenessFirstOrder[i], args.df, args.config).message
            IN  /\ m.columns \subseteq ret.message.columns
                /\ m.values \subseteq ret.message.values
                /\ m.numbers \subseteq ret.message.numbers

\* C20, amended: the validator raises at the first check that fails; the
\* failure reports that check alone (with all the columns it finds at fault),
\* and the checks after it are not run.
C20_ReportsFirstFailure ==
    (Validated /\ ret.raised # "none") =>
        LET failing == Violated(CompletenessFirstOrder, args.df, args.config)
            first   == CHOOSE i \in failing : \A j \in failing : i <= j
        IN  /\ failing # {}
            /\ ret.message =
                  Outcome(CompletenessFirstOrder[first], args.df, args.config).message
            /\ \A i \in failing :
                  i # first =>
                      \A k \in 1..Len(ret.log) : ret.log[k] # CompletenessFirstOrder[i]

\* A year before year_min and the sector 'Foo' in one row: the error reports
\* the year and says nothing of the sector.
C20_Witness ==
    /\ Validated
    /\ len(args.df) = 1
    /\ columns(args.df) = DOMAIN CleanDType \ {"num_facilities"}
    /\ args.df.rows[1]["year"] = Some(2005)
    /\ args.df.rows[1]["sector"] = Some("Foo")
    /\ ret.raised = "ValueError"
    /\ ret.message.columns = {"year"}
    /\ ret.message.values = {}
    /\ ret.message.numbers = {2005, 2006}

(***************************************************************************)
(* standardize_column_names.                                               *)
(***************************************************************************)
\* The name a column has after df.rename(column_mapping).
renamed(c, column_mapping) ==
    IF c \in DOMAIN column_mapping THEN column_mapping[c] ELSE c

\* df.rename(column_mapping) on a table that holds every key: all the keys
\* are renamed at once, the rows stay as they are; polars refuses a result in
\* which two columns would share a name.
rename(df, column_mapping) ==
    LET old(n) == CHOOSE c \in columns(df) : renamed(c, column_mapping) = n
        names  == {renamed(c, column_mapping) : c \in columns(df)}
    IN  IF \E c1, c2 \in columns(df) :
              c1 # c2 /\ renamed(c1, column_mapping) = renamed(c2, column_mapping)
        THEN Raised("DuplicateError",
                    Message("column name is duplicate",
                        {renamed(c1, column_mapping) : c1 \in
                            {c \in columns(df) : \E c2 \in columns(df) :
                                c # c2 /\ renamed(c, column_mapping)
                                            = renamed(c2, column_mapping)}},
                        {}, {}))
        ELSE Returned([schema |-> [n \in names |-> df.schema[old(n)]],
                       rows   |-> [i \in 1..len(df) |->
                                      [n \in names |-> df.rows[i][old(n)]]]])

\* A renaming that passes over the keys the table lacks.
standardize_present_names(df, column_mapping) ==
    rename(df, [c \in DOMAIN column_mapping \cap columns(df) |-> column_mapping[c]])

\* standardize_column_names(df, column_mapping)
standardize_column_names(df, column_mapping) ==
    LET missing_cols == DOMAIN column_mapping \ columns(df)
    IN  IF missing_cols # {}
        THEN Raised("ValueError",
                    Message("Columns not found in DataFrame", missing_cols, {}, {}))
        ELSE rename(df, column_mapping)

\* The dtypes of a raw table as it is read, and its cells.
RawDType == [Year |-> "Int64", Sector |-> "String", count |-> "Int64"]

RawDom ==
    [Year |-> {Some(2018), Some(2019)}, Sector |-> {Null, Some("Public")},
     count |-> {Some(100)}]

RawTables ==
    TypedTables({"Year", "Sector", "count"}, RawDom, RawDType, MaxRows)
        \cup TypedTables({"Year", "count"}, RawDom, RawDType, MaxRows)

\* The mappings: some of the keys Year, Sector and NonExistent, each to one of
\* four names, two of which are names of raw columns.
ColumnMappings ==
    UNION {[K -> {"year", "sector", "count", "Year"}] :
            K \in SUBSET {"Year", "Sector", "NonExistent"}}

RenameArgs ==
    {[fn |-> "standardize_column_names", df |-> t, column_mapping |-> m] :
        t \in RawTables, m \in ColumnMappings}

InitRename ==
    /\ args \in RenameArgs
    /\ ret = NoReturn
    /\ prev = NoReturn
    /\ calls = 0

\* df_renamed = standardize_column_names(df, column_mapping)
CallStandardizeNames ==
    /\ calls = 0
    /\ args.fn = "standardize_column_names"
    /\ ret' = standardize_column_names(args.df, args.column_mapping)
    /\ prev' = ret
    /\ calls' = calls + 1
    /\ UNCHANGED args

NextRename == CallStandardizeNames

SpecRename == InitRename /\ [][NextRename]_vars

(***************************************************************************)
(* Claims about standardize_column_names.                                  *)
(***************************************************************************)
Renamed == calls = 1 /\ args.fn = "standardize_column_names"

\* The returned table is the input with the keys of the mapping renamed: each
\* column is found under its new name with its dtype and, row by row in the
\* same order, its cells, and there is no other column.
RenamedExactly(df, column_mapping, out) ==
    /\ columns(out) = {renamed(c, column_mapping) : c \in columns(df)}
    /\ Cardinality(columns(out)) = Cardinality(columns(df))
    /\ len(out) = len(df)
    /\ \A c \in columns(df) :
          /\ out.schema[renamed(c, column_mapping)] = df.schema[c]
          /\ \A i \in 1..len(df) :
                out.rows[i][renamed(c, column_mapping)] = df.rows[i][c]

\* C16 as stated: when a key of the mapping is not a column the call fails
\* naming the missing columns and renames nothing; when all keys exist,
\* exactly those columns are renamed, the row order and the other columns
\* untouched.
C16_RenameAllOrNothing ==
    Renamed =>
        LET missing == DOMAIN args.column_mapping \ columns(args.df)
        IN  IF missing # {}
            THEN /\ ret.raised = "ValueError"
                 /\ ret.message.columns = missing
            ELSE /\ ret.raised = "none"
                 /\ RenamedExactly(args.df, args.column_mapping, ret.value)

\* Two columns of the table would share a name after the renaming.
Collides(df, column_mapping) ==
    \E c1, c2 \in columns(df) :
        c1 # c2 /\ renamed(c1, column_mapping) = renamed(c2, column_mapping)

\* C16, amended: a missing key fails the call with the missing columns named
\* and nothing renamed; when all keys exist and no two columns would share a
\* name, exactly those columns are renamed, the row order and the other
\* columns untouched; when all keys exist and two columns would share a name,
\* the call raises and returns no table.
C16_RenameUnlessCollision ==
    Renamed =>
        LET missing == DOMAIN args.column_mapping \ columns(args.df)
        IN  IF missing # {}
            THEN /\ ret.raised = "ValueError"
                 /\ ret.message.columns = missing
            ELSE IF Collides(args.df, args.column_mapping)
            THEN ret.raised = "DuplicateError"
            ELSE /\ ret.raised = "none"
                 /\ RenamedExactly(args.df, args.column_mapping, ret.value)

\* Year and Sector renamed on a table of two rows that also holds count.
C16_Witness ==
    /\ Renamed
    /\ DOMAIN args.column_mapping = {"Year", "Sector"}
    /\ args.column_mapping["Year"] = "year"
    /\ args.column_mapping["Sector"] = "sector"
    /\ columns(args.df) = {"Year", "Sector", "count"}
    /\ len(args.df) = 2
    /\ ret.raised = "none"
    /\ columns(ret.value) = {"year", "sector", "count"}
    /\ ret.value.rows[2]["year"] = args.df.rows[2]["Year"]

(***************************************************************************)
(* convert_data_types.                                                     *)
(***************************************************************************)
\* The integers the strings of the model's raw columns stand for.
Parsed ==
    [s \in {"2018", "2019", "2005"} |->
        IF s = "2018" THEN 2018 ELSE IF s = "2019" THEN 2019 ELSE 2005]

\* cast(target_dtype, strict=False) on one cell: a null stays null; a string
\* that is no integer, or an integer outside the 32 bits, becomes null; an
\* integer within them and a string cast to Categorical keep their value.
cast(cell, dtype, target_dtype) ==
    IF is_null(cell) THEN Null
    ELSE IF target_dtype = "Int32" /\ dtype = "String"
    THEN (IF cell[1] \in DOMAIN Parsed THEN Some(Parsed[cell[1]]) ELSE Null)
    ELSE IF target_dtype = "Int32"
    THEN (IF cell[1] >= 0 - 2147483647 - 1 /\ cell[1] <= 2147483647 THEN cell ELSE Null)
    ELSE cell

\* A cast that drops the rows whose cell cannot be cast.
cast_column_drop_failed(df, col, target_dtype) ==
    LET ok == {i \in 1..len(df) :
                is_null(df.rows[i][col])
                    \/ ~is_null(cast(df.rows[i][col], df.schema[col], target_dtype))}
        f  == CHOOSE g \in [1..Cardinality(ok) -> ok] :
                \A i, j \in 1..Cardinality(ok) : i < j => g[i] < g[j]
    IN  [schema |-> [c \in columns(df) |->
                        IF c = col THEN target_dtype ELSE df.schema[c]],
         rows   |-> [k \in 1..Cardinality(ok) |->
                        [c \in columns(df) |->
                            IF c = col
                            THEN cast(df.rows[f[k]][c], df.schema[col], target_dtype)
                            ELSE df.rows[f[k]][c]]]]

\* df_converted.with_columns(pl.col(col).cast(target_dtype, strict=False).alias(col))
cast_column(df, col, target_dtype) ==
    [schema |-> [c \in columns(df) |->
                    IF c = col THEN target_dtype ELSE df.schema[c]],
     rows   |-> [i \in 1..len(df) |->
                    [c \in columns(df) |->
                        IF c = col
                        THEN cast(df.rows[i][c], df.schema[col], target_dtype)
                        ELSE df.rows[i][c]]]]

\* for col, target_dtype in type_mapping.items(): the columns are cast one
\* after the other.
RECURSIVE cast_each(_, _, _)
cast_each(df, type_mapping, todo) ==
    IF todo = {} THEN df
    ELSE LET col == CHOOSE c \in todo : TRUE
         IN  cast_each(cast_column(df, col, type_mapping[col]), type_mapping,
                       todo \ {col})

\* convert_data_types(df, type_mapping)
convert_data_types(df, type_mapping) ==
    LET missing_cols == DOMAIN type_mapping \ columns(df)
    IN  IF missing_cols # {}
        THEN Raised("ValueError",
                    Message("Columns not found for type conversion", missing_cols, {}, {}))
        ELSE Returned(cast_each(df, type_mapping, DOMAIN type_mapping))

\* The tables to convert: count and sector as they are read, and the year of
\* a file with a stray text in the column, read as strings.
ConvertDom ==
    [year |-> {Some("2018"), Some("n/a")}, count |-> {Null, Some(100)},
     sector |-> {Some("Public")}]

ConvertTables ==
    TypedTables(DOMAIN ConvertDom, ConvertDom,
                [year |-> "String", count |-> "Int64", sector |-> "String"], MaxRows)

\* type_map of the unit tests, with a column the table lacks.
type_map ==
    [year |-> "Int32", count |-> "Int32", sector |-> "Categorical",
     nonexistent |-> "String"]

ConvertArgs ==
    {[fn |-> "convert_data_types", df |-> t,
      type_mapping |-> [c \in K |-> type_map[c]]] :
        t \in ConvertTables, K \in SUBSET DOMAIN type_map}

\* df_typed = convert_data_types(df, type_mapping)
CallConvertDataTypes ==
    /\ calls = 0
    /\ args.fn = "convert_data_types"
    /\ ret' = convert_data_types(args.df, args.type_mapping)
    /\ prev' = ret
    /\ calls' = calls + 1
    /\ UNCHANGED args

(***************************************************************************)
(* The cleaning functions together: one call of any of them.               *)
(***************************************************************************)
InitCleaner ==
    /\ \/ args \in RenameArgs
       \/ args \in ConvertArgs
       \/ args \in SectorArgs
       \/ args \in MissingArgs
       \/ args \in DupArgs
       \/ IsOutlierCall(args)
    /\ ret = NoReturn
    /\ prev = NoReturn
    /\ calls = 0

NextCleaner ==
    \/ CallStandardizeNames
    \/ CallConvertDataTypes
    \/ CallStandardize
    \/ CallHandleMissing
    \/ CallDetectDuplicates
    \/ CallFlagOutliers

SpecCleaner == InitCleaner /\ [][NextCleaner]_vars

MaxMainRows == 1

\* The files main() writes after the validations.
OutputFiles ==
    {"workforce_clean.parquet", "capacity_clean.parquet",
     "data_quality_report.md", "README.md"}

Running(pc, written) == [raised |-> "pending", pc |-> pc, written |-> written]

Exited(code, written) == [raised |-> "none", value |-> code, written |-> written]

\* A handler that logs the validation error and lets the run go on.
after_validation_logged(result, next) == next

\* try: validate_...(df, config) except Exception as e: logger.error(...);
\* raise -- the error is logged and raised again, to the except clause of
\* main(); without an error the run goes on to the next statement.
after_validation(result, next) ==
    IF result.raised # "none" THEN "except" ELSE next

InitMain ==
    /\ \E w \in TypedTables(DOMAIN WorkforceValDom, WorkforceValDom,
                            CleanDType, MaxMainRows) :
         \E c \in TypedTables(DOMAIN CapacityValDom, CapacityValDom,
                              CleanDType, MaxMainRows) :
            args = [fn |-> "main", workforce_df |-> w, capacity_df |-> c,
                    config |-> ValidationConfig]
    /\ ret = Running("validate_workforce", {})
    /\ prev = NoReturn
    /\ calls = 0

\* One statement of main(): from pc to pc', the files written becoming
\* written'.
Step(pc, next, written) ==
    /\ args.fn = "main"
    /\ ret.raised = "pending"
    /\ ret.pc = pc
    /\ ret' = Running(next, written)
    /\ prev' = ret
    /\ calls' = calls + 1
    /\ UNCHANGED args

\* validate_workforce_data(workforce_df, config)
ValidateWorkforce ==
    Step("validate_workforce",
         after_validation(validate_workforce_data(args.workforce_df, args.config),
                          "validate_capacity"),
         ret.written)

\* validate_capacity_data(capacity_df, config)
ValidateCapacity ==
    Step("validate_capacity",
         after_validation(validate_capacity_data(args.capacity_df, args.config),
                          "save_workforce"),
         ret.written)

\* workforce_df.write_parquet(workforce_output), which the file system may
\* refuse.
SaveWorkforce ==
    \/ Step("save_workforce", "save_capacity",
            ret.written \cup {"workforce_clean.parquet"})
    \/ Step("save_workforce", "except", ret.written)

\* capacity_df.write_parquet(capacity_output)
SaveCapacity ==
    \/ Step("save_capacity", "save_report",
            ret.written \cup {"capacity_clean.parquet"})
    \/ Step("save_capacity", "except", ret.written)

\* with open(report_path, 'w') as f: f.write(...)
SaveReport ==
    \/ Step("save_report", "save_dictionary",
            ret.written \cup {"data_quality_report.md"})
    \/ Step("save_report", "except", ret.written)

\* with open(dict_path, 'w') as f: f.write(data_dict)
SaveDictionary ==
    \/ Step("save_dictionary", "return", ret.written \cup {"README.md"})
    \/ Step("save_dictionary", "except", ret.written)

\* return 0 at the end of the try block; return 1 in "except Exception".
Return ==
    /\ args.fn = "main"
    /\ ret.raised = "pending"
    /\ ret.pc \in {"return", "except"}
    /\ ret' = Exited(IF ret.pc = "return" THEN 0 ELSE 1, ret.written)
    /\ prev' = ret
    /\ calls' = calls + 1
    /\ UNCHANGED args

NextMain ==
    \/ ValidateWorkforce
    \/ ValidateCapacity
    \/ SaveWorkforce
    \/ SaveCapacity
    \/ SaveReport
    \/ SaveDictionary
    \/ Return

SpecMain == InitMain /\ [][NextMain]_vars

(***************************************************************************)
(* Claims about main().                                                    *)
(***************************************************************************)
\* One of the two validators raises on the tables of the run.
ValidationFails ==
    \/ validate_workforce_data(args.workforce_df, args.config).raised # "none"
    \/ validate_capacity_data(args.capacity_df, args.config).raised # "none"

\* C18: a failure of validate_workforce_data or validate_capacity_data is
\* fatal: main() returns non-zero and writes none of the four output files;
\* the files are written only after both validations have passed.
C18_ValidationFatal ==
    args.fn = "main" =>
        /\ ValidationFails =>
              /\ ret.written = {}
              /\ ret.raised = "none" => ret.value # 0
        /\ ret.written # {} =>
              /\ ~ValidationFails
              /\ ret.written \subseteq OutputFiles
              /\ prev.raised = "pending"
              /\ prev.pc \notin {"validate_workforce", "validate_capacity"}

\* A run whose workforce table passes and whose capacity table fails: it has
\* returned 1 after three steps and written nothing.
C18_Witness ==
    /\ args.fn = "main"
    /\ validate_workforce_data(args.workforce_df, args.config).raised = "none"
    /\ validate_capacity_data(args.capacity_df, args.config).raised # "none"
    /\ calls = 3
    /\ ret.raised = "none"
    /\ ret.value = 1
    /\ ret.written = {}

(***************************************************************************)
(* Claims about the outlier_flag column of the returned table.             *)
(***************************************************************************)
\* C24: in the table returned by detect_and_flag_outliers the column
\* outlier_flag is present and holds a non-null Boolean on every row, also
\* when a checked column holds a null on the row and when none of the listed
\* columns exists in the table.
C24_FlagPresentNonNull ==
    (Flagged /\ ret.raised = "none") =>
        /\ "outlier_flag" \in columns(ret.value)
        /\ \A i \in 1..len(ret.value) :
              ret.value.rows[i]["outlier_flag"] \in {Some(TRUE), Some(FALSE)}

\* The returned table lacks the column outlier_flag.
C24_FlagAbsent ==
    (Flagged /\ ret.raised = "none") => "outlier_flag" \in columns(ret.value)

\* Where the returned table holds outlier_flag, no row holds a null in it.
C24_FlagNull ==
    (Flagged /\ ret.raised = "none" /\ "outlier_flag" \in columns(ret.value)) =>
        \A i \in 1..len(ret.value) : ~is_null(ret.value.rows[i]["outlier_flag"])

(***************************************************************************)
(* Sustained misalignments: detect_significant_misalignments of            *)
(* src/analysis/workforce_capacity_metrics.py.  The mismatch index is held *)
(* in whole percentage points.                                             *)
(***************************************************************************)
MaxYears == 4

FirstYear == 2015

MISMATCH_THRESHOLDS ==
    [significant_divergence |-> 1, severe_divergence |-> 3,
     min_years_sustained |-> 3]

abs(v) == IF v < 0 THEN 0 - v ELSE v

\* df.filter(predicate): the rows on which the predicate is true, in order.
filter(df, keep(_)) == [df EXCEPT !.rows = SelectSeq(df.rows, keep)]

\* The rows with one more row put before the first row of a later year.
RECURSIVE insert_by(_, _, _)
insert_by(rows, row, col) ==
    IF rows = <<>> THEN <<row>>
    ELSE IF row[col][1] < Head(rows)[col][1] THEN <<row>> \o rows
    ELSE <<Head(rows)>> \o insert_by(Tail(rows), row, col)

RECURSIVE sorted_rows(_, _)
sorted_rows(rows, col) ==
    IF rows = <<>> THEN <<>>
    ELSE insert_by(sorted_rows(SubSeq(rows, 1, Len(rows) - 1), col),
                   rows[Len(rows)], col)

\* df.sort(col), on a column without nulls.
sort(df, col) == [df EXCEPT !.rows = sorted_rows(df.rows, col)]

\* max(values, key=abs): the first value of the largest absolute value.
max_by_abs(values) ==
    LET best == CHOOSE i \in 1..Len(values) :
                    /\ \A j \in 1..Len(values) : abs(values[j]) <= abs(values[i])
                    /\ \A j \in 1..(i - 1) : abs(values[j]) < abs(values[i])
    IN  values[best]

\* The severity of an average mismatch sum/n against the two thresholds.
severity_of(total, n) ==
    IF abs(total) > MISMATCH_THRESHOLDS.severe_divergence * n THEN "High"
    ELSE IF abs(total) > MISMATCH_THRESHOLDS.significant_divergence * n
         THEN "Medium"
    ELSE "Low"

\* if len(years_exceeded) >= min_years: the test that decides whether the
\* sector is reported.
sustained(years_exceeded, min_years) == Len(years_exceeded) >= min_years

\* detect_significant_misalignments(mismatch_df, threshold, min_years): the
\* results, one for each reported sector (the list follows the order of
\* unique(), which is any order); avg_mismatch is the pair sum, number of
\* values.
detect_significant_misalignments(mismatch_df, threshold, min_years) ==
    LET limit == IF is_null(threshold)
                 THEN MISMATCH_THRESHOLDS.significant_divergence
                 ELSE threshold[1]
        has_index(row) == ~is_null(row["mismatch_index"])
        df == filter(mismatch_df, has_index)
        sectors == {df.rows[i]["sector"] : i \in 1..len(df)}
        sector_data(sector) ==
            LET of_sector(row) == row["sector"] = sector
            IN  sort(filter(df, of_sector), "year")
        exceeds_limit(row) == abs(row["mismatch_index"][1]) > limit
        years_exceeded(sector) ==
            non_null(series(filter(sector_data(sector), exceeds_limit), "year"))
        mismatch_values(sector) ==
            LET in_years(row) ==
                    \E i \in 1..Len(years_exceeded(sector)) :
                        row["year"] = Some(years_exceeded(sector)[i])
            IN  non_null(series(filter(sector_data(sector), in_years),
                                "mismatch_index"))
        result(sector) ==
            [sector |-> sector[1],
             years_affected |-> years_exceeded(sector),
             avg_mismatch |-> [total |-> sum(mismatch_values(sector)),
                               n |-> Len(mismatch_values(sector))],
             max_mismatch |-> max_by_abs(mismatch_values(sector)),
             cumulative_mismatch |->
                 sum(non_null(series(sector_data(sector), "mismatch_index"))),
             severity |-> severity_of(sum(mismatch_values(sector)),
                                      Len(mismatch_values(sector)))]
    IN  Returned({result(sector) :
                    sector \in {s \in sectors :
                                   sustained(years_exceeded(s), min_years)}})

Years == FirstYear..(FirstYear + MaxYears - 1)

MismatchCells == {Null, Some(0), Some(2), Some(-4)}

MismatchDType ==
    [year |-> "Int64", sector |-> "String", mismatch_index |-> "Float64"]

\* The rows of one sector, latest year first: a row for each year of present.
RECURSIVE SectorRows(_, _, _, _)
SectorRows(sector, year, present, index) ==
    IF year < FirstYear THEN <<>>
    ELSE (IF year \in present
          THEN <<[year |-> Some(year), sector |-> Some(sector),
                  mismatch_index |-> index[year]]>>
          ELSE <<>>)
            \o SectorRows(sector, year - 1, present, index)

\* The output of calculate_mismatch_index: one row for a sector and a year.
MismatchTable(present, index, private) ==
    [schema |-> MismatchDType,
     rows   |-> SectorRows("Public", FirstYear + MaxYears - 1, present, index)
                   \o (IF private
                       THEN SectorRows("Private", FirstYear + MaxYears - 1, Years,
                                       [y \in Years |-> Some(4)])
                       ELSE <<>>)]

InitMisalignments ==
    /\ \E present \in SUBSET Years, index \in [Years -> MismatchCells],
          private \in BOOLEAN, threshold \in {Null, Some(1), Some(2)},
          min_years \in {2, 3} :
            args = [fn |-> "detect_significant_misalignments",
                    mismatch_df |-> MismatchTable(present, index, private),
                    threshold |-> threshold, min_years |-> min_years]
    /\ ret = NoReturn
    /\ prev = NoReturn
    /\ calls = 0

\* results = detect_significant_misalignments(mismatch_df, threshold, min_years)
CallDetectMisalignments ==
    /\ calls = 0
    /\ args.fn = "detect_significant_misalignments"
    /\ ret' = detect_significant_misalignments(args.mismatch_df, args.threshold,
                                               args.min_years)
    /\ prev' = ret
    /\ calls' = calls + 1
    /\ UNCHANGED args

NextMisalignments == CallDetectMisalignments

SpecMisalignments == InitMisalignments /\ [][NextMisalignments]_vars

(***************************************************************************)
(* Claims about detect_significant_misalignments.                          *)
(***************************************************************************)
\* The years, in order, in which the sector's mismatch index exceeds the
\* threshold of the call in absolute value.
ExceedingYears(sector) ==
    LET limit == IF is_null(args.threshold)
                 THEN MISMATCH_THRESHOLDS.significant_divergence
                 ELSE args.threshold[1]
        rows == args.mismatch_df.rows
    IN  {y \in Years :
            \E i \in 1..Len(rows) :
                /\ rows[i]["sector"] = Some(sector)
                /\ rows[i]["year"] = Some(y)
                /\ ~is_null(rows[i]["mismatch_index"])
                /\ abs(rows[i]["mismatch_index"][1]) > limit}

\* The sector exceeds the threshold in min_years consecutive years.
HasRun(sector) ==
    \E y \in Years : \A j \in 0..(args.min_years - 1) : (y + j) \in ExceedingYears(sector)

\* C27: detect_significant_misalignments reports a sector only if the
\* absolute mismatch index exceeds the threshold in at least min_years
\* consecutive years; a sector with min_years or more exceeding years that
\* never form such a run is not reported.
C27_ReportsOnlyConsecutiveRuns ==
    (calls = 1 /\ args.fn = "detect_significant_misalignments") =>
        \A r \in ret.value : HasRun(r.sector)

\* What the code does: a sector is reported exactly when the number of its
\* exceeding years reaches min_years, consecutive or not.
C27_ReportsByCount ==
    (calls = 1 /\ args.fn = "detect_significant_misalignments") =>
        {r.sector : r \in ret.value}
            = {s \in {"Public", "Private"} :
                  Cardinality(ExceedingYears(s)) >= args.min_years}

(***************************************************************************)
(* The orchestrator: MultiAgentOrchestrator.run_sequential_pipeline of     *)
(* src/orchestration/pipeline_orchestrator.py.  The state of the object    *)
(* and of the loop is kept in ret while the call is pending.               *)
(***************************************************************************)
MaxAgents == 3

EmptyDict == <<>>

\* self.config of the orchestrator: the agents in the order of the file.
ConfigOrder == <<"extraction", "profiling">>

OrchestratorConfig ==
    [agents |->
        [extraction |-> [name |-> "Extraction", scope |-> [stages |-> <<1>>],
                         instructions |-> <<"extract">>,
                         prompt_template |-> "extraction.md"],
         profiling  |-> [name |-> "Profiling", scope |-> [stages |-> <<2, 3>>],
                         instructions |-> <<"profile">>,
                         prompt_template |-> "profiling.md"]]]

\* The ids a caller may list: unknown is not an agent of the configuration.
AgentIds == {"extraction", "profiling", "unknown"}

\* AgentContext(...), as run_sequential_pipeline builds it.
AgentContext(agent_config) ==
    [stage |-> agent_config.scope.stages[1],
     agent_name |-> agent_config.name,
     instructions |-> agent_config.instructions,
     inputs |-> EmptyDict,
     previous_findings |-> EmptyDict]

\* A result whose agent recommends a next step.
AgentResultWithNextStep(context) ==
    [agent_name |-> context.agent_name,
     stage |-> context.stage,
     validation_status |-> "passed",
     outputs |-> EmptyDict,
     findings |-> EmptyDict,
     recommended_next_step |-> "profiling",
     handoff_file |-> Null]

\* result = AgentResult(...): the placeholder result of execute_agent.
AgentResult(context) ==
    [agent_name |-> context.agent_name,
     stage |-> context.stage,
     validation_status |-> "passed",
     outputs |-> EmptyDict,
     findings |-> EmptyDict,
     recommended_next_step |-> "",
     handoff_file |-> Null]

\* The name of the file _create_handoff writes (the timestamp left out).
handoff_name(agent_name, next_step) == [from |-> agent_name, to |-> next_step]

\* The loop of run_sequential_pipeline before the agent at position i.
Looping(i, agents, results, history, previous_handoff, created, read) ==
    [raised |-> "pending", i |-> i, agents |-> agents, results |-> results,
     execution_history |-> history, previous_handoff |-> previous_handoff,
     created |-> created, read |-> read]

\* The end of the call: the returned list, or the error that left it.
Finished(raised, state) ==
    [raised |-> raised, value |-> state.results, agents |-> state.agents,
     execution_history |-> state.execution_history,
     previous_handoff |-> state.previous_handoff,
     created |-> state.created, read |-> state.read]

\* One pass of "for agent_id in agents": the state after the agent at
\* position i, with the files that exist.
run_agent(state, config, files) ==
    LET agent_id == state.agents[state.i]
    IN  IF agent_id \notin DOMAIN config.agents
        THEN Finished("KeyError", state)
        ELSE
        LET agent_config == config.agents[agent_id]
            context == AgentContext(agent_config)
            handoff == state.previous_handoff
            reads == IF is_null(handoff) THEN state.read
                     ELSE Append(state.read, handoff[1])
        IN  IF ~is_null(handoff) /\ handoff[1] \notin state.created
            THEN Finished("FileNotFoundError", state)
            ELSE IF agent_config.prompt_template \notin files
            THEN Finished("FileNotFoundError", [state EXCEPT !.read = reads])
            ELSE
            LET result == AgentResult(context)
                history == Append(state.execution_history, result)
                results == Append(state.results, result)
                after == [state EXCEPT !.read = reads, !.results = results,
                                       !.execution_history = history]
            IN  IF result.validation_status = "failed"
                THEN [after EXCEPT !.i = Len(state.agents) + 1]
                ELSE IF result.recommended_next_step \notin {"", "complete"}
                THEN LET file == handoff_name(result.agent_name,
                                              result.recommended_next_step)
                         linked == [result EXCEPT !.handoff_file = Some(file)]
                     IN  [after EXCEPT
                            !.i = state.i + 1,
                            !.previous_handoff = Some(file),
                            !.created = state.created \cup {file},
                            !.results[Len(results)] = linked,
                            !.execution_history[Len(history)] = linked]
                ELSE [after EXCEPT !.i = state.i + 1]

InitOrchestrator ==
    /\ \E agents \in {Null} \cup {Some(l) : l \in SeqsUpTo(AgentIds, MaxAgents)},
          files \in SUBSET {"extraction.md", "profiling.md"} :
            args = [fn |-> "run_sequential_pipeline", agents |-> agents,
                    config |-> OrchestratorConfig, files |-> files]
    /\ ret = NoReturn
    /\ prev = NoReturn
    /\ calls = 0

\* if agents is None: agents = list(self.config['agents'].keys());
\* results = []; previous_handoff = None
StartPipeline ==
    /\ args.fn = "run_sequential_pipeline"
    /\ calls = 0
    /\ ret' = Looping(1, IF is_null(args.agents) THEN ConfigOrder
                         ELSE args.agents[1],
                      <<>>, <<>>, Null, {}, <<>>)
    /\ prev' = ret
    /\ calls' = calls + 1
    /\ UNCHANGED args

\* One agent of the list: context, execute_agent, the status check and the
\* handoff.
RunAgent ==
    /\ args.fn = "run_sequential_pipeline"
    /\ calls > 0
    /\ ret.raised = "pending"
    /\ ret.i <= Len(ret.agents)
    /\ ret' = run_agent(ret, args.config, args.files)
    /\ prev' = ret
    /\ calls' = calls + 1
    /\ UNCHANGED args

\* return results
ReturnResults ==
    /\ args.fn = "run_sequential_pipeline"
    /\ calls > 0
    /\ ret.raised = "pending"
    /\ ret.i > Len(ret.agents)
    /\ ret' = Finished("none", ret)
    /\ prev' = ret
    /\ calls' = calls + 1
    /\ UNCHANGED args

NextOrchestrator ==
    \/ StartPipeline
    \/ RunAgent
    \/ ReturnResults

SpecOrchestrator == InitOrchestrator /\ [][NextOrchestrator]_vars

(***************************************************************************)
(* Claims about run_sequential_pipeline.                                   *)
(***************************************************************************)
\* The call has ended, by a return or by an error.
PipelineEnded ==
    /\ args.fn = "run_sequential_pipeline"
    /\ calls > 0
    /\ ret.raised # "pending"

\* The names of the agents of the first n ids of the list.
NamesOfFirst(n) ==
    [k \in 1..n |-> OrchestratorConfig.agents[ret.agents[k]].name]

\* Every id of the list is an agent of the configuration.
AllConfigured ==
    \A k \in 1..Len(ret.agents) : ret.agents[k] \in DOMAIN OrchestratorConfig.agents

\* The template of every agent of the list can be read.
AllTemplatesReadable ==
    \A k \in 1..Len(ret.agents) :
        ret.agents[k] \in DOMAIN OrchestratorConfig.agents
            => OrchestratorConfig.agents[ret.agents[k]].prompt_template \in args.files

\* No handoff file is created or read, and no result carries one.
NoHandoff ==
    /\ ret.created = {}
    /\ ret.read = <<>>
    /\ is_null(ret.previous_handoff)
    /\ \A k \in 1..Len(ret.execution_history) :
          is_null(ret.execution_history[k].handoff_file)

C30_StoppedEarly ==
    /\ PipelineEnded
    /\ ret.raised = "FileNotFoundError"
    /\ ret.agents = <<"extraction", "profiling">>
    /\ Len(ret.value) = 1

(***************************************************************************)
(* The whole run of main() in scripts/clean_workforce_capacity_data.py,    *)
(* from the configuration file and the five raw files to the exit code.    *)
(* While the run is pending, ret holds the local variables of main(), the  *)
(* statement it is at, the stages it has called and the files written.     *)
(***************************************************************************)
\* rows of the raw doctors table of a run
MaxRawRows == 2

\* config[k1][k2]...: the path is in the configuration.
RECURSIVE has(_, _)
has(config, path) ==
    \/ path = <<>>
    \/ /\ Head(path) \in DOMAIN config
       /\ has(config[Head(path)], Tail(path))

\* The configuration without the key at the end of the path.
RECURSIVE without(_, _)
without(config, path) ==
    IF Len(path) = 1
    THEN [k \in DOMAIN config \ {path[1]} |-> config[k]]
    ELSE [k \in DOMAIN config |->
            IF k = path[1] THEN without(config[k], Tail(path)) ELSE config[k]]

\* config/cleaning_rules.yml with every recognized key: the mappings of the
\* raw column names, the sector map, the strategy, the threshold (3
\* standard deviations, as the fraction 3/1) and the validation rules.
CleaningConfig ==
    [workforce_column_mappings |->
        ("specialist_non-specialist" :> "specialist_category")
            @@ ("type" :> "nurse_type"),
     capacity_column_mappings |->
        ("no_of_facilities" :> "num_facilities") @@ ("no_beds" :> "num_beds"),
     sector_standardization |->
        ("Public Sector" :> "Public") @@ ("Private Sector" :> "Private"),
     cleaning_strategies |-> [missing_values |-> [strategy |-> "flag"]],
     value_constraints |->
        [outlier_threshold_stdev |-> [num |-> 3, den |-> 1],
         workforce |-> ValidationConfig.value_constraints.workforce,
         capacity  |-> ValidationConfig.value_constraints.capacity],
     valid_values |-> ValidationConfig.valid_values,
     quality_thresholds |->
        [completeness_target |->
            ValidationConfig.quality_thresholds.completeness_target,
         max_outlier_percentage |-> 5]]

\* The recognized keys that hold a value.
RecognizedKeys ==
    {<<"workforce_column_mappings">>, <<"capacity_column_mappings">>,
     <<"sector_standardization">>,
     <<"cleaning_strategies", "missing_values", "strategy">>,
     <<"value_constraints", "outlier_threshold_stdev">>,
     <<"value_constraints", "workforce", "year_min">>,
     <<"value_constraints", "capacity", "min_count">>,
     <<"valid_values", "sectors">>, <<"valid_values", "professions">>,
     <<"quality_thresholds", "completeness_target">>,
     <<"quality_thresholds", "max_outlier_percentage">>}

\* The configuration with another missing-value strategy.
with_strategy(config, strategy) ==
    [config EXCEPT !.cleaning_strategies.missing_values.strategy = strategy]

\* The validation rules a validator reads, a missing one filled in: the
\* validator raises KeyError before it would use a filled value.
rules(config) ==
    LET value(path) == IF has(config, path) THEN
                            LET a == config[path[1]]
                            IN  IF Len(path) = 2 THEN a[path[2]]
                                ELSE a[path[2]][path[3]]
                       ELSE
                            LET a == CleaningConfig[path[1]]
                            IN  IF Len(path) = 2 THEN a[path[2]]
                                ELSE a[path[2]][path[3]]
        constraints(table) ==
            [year_min  |-> value(<<"value_constraints", table, "year_min">>),
             year_max  |-> value(<<"value_constraints", table, "year_max">>),
             min_count |-> value(<<"value_constraints", table, "min_count">>)]
    IN  [value_constraints |-> [workforce |-> constraints("workforce"),
                                capacity  |-> constraints("capacity")],
         valid_values |->
            [sectors     |-> value(<<"valid_values", "sectors">>),
             professions |-> value(<<"valid_values", "professions">>)],
         quality_thresholds |->
            [completeness_target |->
                value(<<"quality_thresholds", "completeness_target">>)]]

\* The keys the checks of validate_workforce_data read, check by check.
workforce_keys ==
    <<{},
      {<<"value_constraints", "workforce", "year_min">>,
       <<"value_constraints", "workforce", "year_max">>},
      {<<"value_constraints", "workforce", "min_count">>},
      {<<"valid_values", "sectors">>},
      {<<"valid_values", "professions">>},
      {<<"quality_thresholds", "completeness_target">>},
      {}>>

\* The keys the checks of validate_capacity_data read, check by check.
capacity_keys ==
    <<{},
      {<<"value_constraints", "capacity", "year_min">>,
       <<"value_constraints", "capacity", "year_max">>},
      {<<"value_constraints", "capacity", "min_count">>},
      {<<"valid_values", "sectors">>},
      {<<"quality_thresholds", "completeness_target">>}>>

\* A validator called with a configuration that may lack keys: the checks
\* run in order, and a check whose arguments read a missing key raises
\* KeyError unless an earlier check has raised.
validate_with(checks, keys, config) ==
    LET failing == {i \in 1..Len(checks) : checks[i].result.raised # "none"}
        keyless == {i \in 1..Len(checks) : \E p \in keys[i] : ~has(config, p)}
    IN  IF \E k \in keyless : \A f \in failing : k <= f
        THEN Raised("KeyError", Message("KeyError", {}, {}, {}))
        ELSE raise_first(checks)

\* The raw files.  A year is held as text, as read_csv reads a column with a
\* stray text in it; a column of integers casts to the same Int32 values.
RawWorkforceDType ==
    [year |-> "String", sector |-> "String", count |-> "Int64",
     type |-> "String"] @@ ("specialist_non-specialist" :> "String")

RawCapacityDType ==
    [year |-> "String", institution_type |-> "String", sector |-> "String",
     no_of_facilities |-> "Int64", no_beds |-> "Int64"]

RawFrame(dtypes, cols, rows) == [schema |-> [c \in cols |-> dtypes[c]], rows |-> rows]

\* workforce_doctors.csv: at most MaxRawRows records of the public sector,
\* the year at times a stray text, at times the same record twice.
DoctorsFiles ==
    TypedTables({"year", "sector", "specialist_non-specialist", "count"},
                [year |-> {Some("2018"), Some("n/a")},
                 sector |-> {Some("Public Sector")},
                 count |-> {Some(100), Some(500)}]
                    @@ ("specialist_non-specialist" :> {Some("Specialists")}),
                RawWorkforceDType, MaxRawRows)

NurseRecord(year, sector) ==
    [year |-> Some(year), sector |-> Some(sector),
     type |-> Some("Registered Nurses"), count |-> Some(110)]

PharmacistRecord(count) ==
    [year |-> Some("2018"), sector |-> Some("Private"), count |-> count]

\* workforce_nurses.csv and workforce_pharmacists.csv: no record, a record
\* that is valid, a year before year_min, a sector outside the vocabulary, a
\* negative count, a record without a count.
OtherWorkforceFiles ==
    LET nurses(rows) ==
            RawFrame(RawWorkforceDType, {"year", "sector", "type", "count"}, rows)
        pharmacists(rows) ==
            RawFrame(RawWorkforceDType, {"year", "sector", "count"}, rows)
    IN  {<<nurses(<<>>), pharmacists(<<>>)>>,
         <<nurses(<<NurseRecord("2019", "Private")>>), pharmacists(<<>>)>>,
         <<nurses(<<NurseRecord("2019", "Private")>>),
           pharmacists(<<PharmacistRecord(Some(100))>>)>>,
         <<nurses(<<NurseRecord("2005", "Private")>>), pharmacists(<<>>)>>,
         <<nurses(<<NurseRecord("2019", "Foo")>>), pharmacists(<<>>)>>,
         <<nurses(<<>>), pharmacists(<<PharmacistRecord(Some(-5))>>)>>,
         <<nurses(<<>>), pharmacists(<<PharmacistRecord(Null)>>)>>}

HospitalRecord(year, sector, facilities, beds) ==
    [year |-> Some(year), institution_type |-> Some("Acute"),
     sector |-> Some(sector), no_of_facilities |-> Some(facilities),
     no_beds |-> Some(beds)]

\* capacity_hospital_beds.csv: two records, or one.
HospitalBedsFiles ==
    LET hospital(rows) ==
            RawFrame(RawCapacityDType,
                     {"year", "institution_type", "sector", "no_of_facilities",
                      "no_beds"}, rows)
    IN  {hospital(<<HospitalRecord("2018", "Public Sector", 10, 300),
                    HospitalRecord("2019", "Private", 12, 320)>>),
         hospital(<<HospitalRecord("2018", "Public Sector", 10, 300)>>)}

\* capacity_primary_care.csv: one record; the file has no sector and no beds.
PrimaryCareFile ==
    RawFrame(RawCapacityDType, {"year", "institution_type", "no_of_facilities"},
             <<[year |-> Some("2018"), institution_type |-> Some("Polyclinic"),
                no_of_facilities |-> Some(20)]>>)

\* A variable of main() that is not yet assigned.
NoFrame == [schema |-> <<>>, rows |-> <<>>]

\* The statements of main() in the order of the file; each is one step.
main_statements_outliers_first ==
    <<"load_config", "load_raw_data",
      "rename_doctors", "rename_nurses", "unify_workforce", "convert_workforce",
      "standardize_workforce", "analyze_workforce", "handle_missing_workforce",
      "outliers_workforce", "dedupe_workforce",
      "rename_hospital", "rename_primary", "unify_capacity", "convert_capacity",
      "standardize_capacity", "analyze_capacity", "handle_missing_capacity",
      "dedupe_capacity", "outliers_capacity",
      "validate_workforce", "validate_capacity",
      "save_workforce", "save_capacity", "save_report", "save_dictionary">>

main_statements ==
    <<"load_config", "load_raw_data",
      "rename_doctors", "rename_nurses", "unify_workforce", "convert_workforce",
      "standardize_workforce", "analyze_workforce", "handle_missing_workforce",
      "dedupe_workforce", "outliers_workforce",
      "rename_hospital", "rename_primary", "unify_capacity", "convert_capacity",
      "standardize_capacity", "analyze_capacity", "handle_missing_capacity",
      "dedupe_capacity", "outliers_capacity",
      "validate_workforce", "validate_capacity",
      "save_workforce", "save_capacity", "save_report", "save_dictionary">>

\* The statement after a statement that did not raise.
following(statement) ==
    LET i == CHOOSE k \in 1..Len(main_statements) : main_statements[k] = statement
    IN  IF i = Len(main_statements) THEN "return" ELSE main_statements[i + 1]

\* main() at its first statement.
Started_main ==
    [raised |-> "pending", pc |-> main_statements[1], value |-> -1,
     config |-> <<>>,
     doctors_df |-> NoFrame, nurses_df |-> NoFrame, pharmacists_df |-> NoFrame,
     hospital_beds_df |-> NoFrame, primary_care_df |-> NoFrame,
     workforce_df |-> NoFrame, capacity_df |-> NoFrame,
     validated |-> [workforce |-> NoFrame, capacity |-> NoFrame],
     persisted |-> [workforce |-> NoFrame, capacity |-> NoFrame],
     written |-> {}, trace |-> <<>>, error |-> "none"]

\* An exception leaves the try block for "except Exception".
Fail(s, error) == [s EXCEPT !.pc = "except", !.error = error]

\* A stage of the pipeline has been called on a table.
Called(s, stage, table) ==
    [s EXCEPT !.trace = Append(@, [stage |-> stage, table |-> table])]

\* variable = stage(...): the call, and the assignment unless it raised.
Assigned(s, stage, table, variable, result) ==
    IF result.raised # "none"
    THEN Fail(Called(s, stage, table), result.raised)
    ELSE [Called(s, stage, table) EXCEPT ![variable] = result.value]

\* Lines 76-78: config = yaml.safe_load(f)
load_config(s, file) == {[s EXCEPT !.config = file], Fail(s, "OSError")}

\* Lines 87-104: the five pl.read_csv calls.
load_raw_data(s, files) ==
    {[s EXCEPT !.doctors_df = files.doctors, !.nurses_df = files.nurses,
               !.pharmacists_df = files.pharmacists,
               !.hospital_beds_df = files.hospital_beds,
               !.primary_care_df = files.primary_care],
     Fail(s, "OSError")}

\* Lines 116-129: a workforce file is renamed when it holds the raw column.
rename_workforce(s, variable, raw_column) ==
    IF ~has(s.config, <<"workforce_column_mappings">>) THEN Fail(s, "KeyError")
    ELSE IF raw_column \notin columns(s[variable]) THEN s
    ELSE IF ~has(s.config, <<"workforce_column_mappings", raw_column>>)
    THEN Fail(s, "KeyError")
    ELSE Assigned(s, "rename", "workforce", variable,
                  standardize_column_names(s[variable],
                      raw_column :> s.config.workforce_column_mappings[raw_column]))

\* Lines 116-123
rename_doctors(s) == {rename_workforce(s, "doctors_df", "specialist_non-specialist")}

\* Lines 125-129
rename_nurses(s) == {rename_workforce(s, "nurses_df", "type")}

\* Line 133
unify_workforce(s) ==
    {[Called(s, "unify", "workforce") EXCEPT
        !.workforce_df = unify_workforce_tables(s.doctors_df, s.nurses_df,
                                                s.pharmacists_df)]}

\* Lines 137-147
workforce_type_map(df) ==
    [c \in {"year", "count", "sector", "profession"}
            \cup ({"nurse_type", "specialist_category"} \cap columns(df)) |->
        IF c \in {"year", "count"} THEN "Int32" ELSE "Categorical"]

\* Line 149
convert_workforce(s) ==
    {Assigned(s, "convert", "workforce", "workforce_df",
              convert_data_types(s.workforce_df, workforce_type_map(s.workforce_df)))}

\* Lines 153-157 and 236-240
standardize(s, table, variable) ==
    IF ~has(s.config, <<"sector_standardization">>) THEN Fail(s, "KeyError")
    ELSE Assigned(s, "standardize", table, variable,
                  standardize_sector_names(s[variable], "sector",
                                           s.config.sector_standardization))

standardize_workforce(s) == {standardize(s, "workforce", "workforce_df")}

\* Lines 161 and 244: analyze_missing_values returns its statistics and
\* leaves the table as it is.
analyze(s, table) == {Called(s, "analyze_missing", table)}

analyze_workforce(s) == analyze(s, "workforce")

\* Lines 165-168 and 248-251: the threshold is left at its default.
handle_missing(s, table, variable) ==
    IF ~has(s.config, <<"cleaning_strategies", "missing_values", "strategy">>)
    THEN Fail(s, "KeyError")
    ELSE Assigned(s, "handle_missing", table, variable,
                  handle_missing_values(s[variable],
                      s.config.cleaning_strategies.missing_values.strategy, 50))

handle_missing_workforce(s) == {handle_missing(s, "workforce", "workforce_df")}

\* A duplicate detection that removes nothing.
dedupe_nothing(s, table, variable, subset) ==
    {Called(s, "dedupe", table)}

\* Lines 172-175 and 255-258: df.unique raises on a key column the table
\* lacks; the rows it returns come in any order.
dedupe(s, table, variable, subset) ==
    IF subset \ columns(s[variable]) # {}
    THEN {Fail(Called(s, "dedupe", table), "ColumnNotFoundError")}
    ELSE {Assigned(s, "dedupe", table, variable, r) :
            r \in detect_duplicates(s[variable], subset, "first")}

dedupe_key == {"year", "sector", "profession", "specialist_category", "nurse_type"}

dedupe_workforce(s) == dedupe(s, "workforce", "workforce_df", dedupe_key)

\* Lines 179-184 and 262-271
flag_outliers(s, table, variable, numeric_columns) ==
    IF ~has(s.config, <<"value_constraints", "outlier_threshold_stdev">>)
    THEN Fail(s, "KeyError")
    ELSE Assigned(s, "outliers", table, variable,
                  detect_and_flag_outliers(s[variable], numeric_columns,
                      s.config.value_constraints.outlier_threshold_stdev, "zscore"))

outliers_workforce(s) == {flag_outliers(s, "workforce", "workforce_df", {"count"})}

\* Lines 196-214: the keys of the mapping that are columns of the file.
rename_capacity(s, variable) ==
    IF ~has(s.config, <<"capacity_column_mappings">>) THEN Fail(s, "KeyError")
    ELSE
    LET capacity_col_map == s.config.capacity_column_mappings
        present == DOMAIN capacity_col_map \cap columns(s[variable])
    IN  IF present = {} THEN s
        ELSE Assigned(s, "rename", "capacity", variable,
                      standardize_column_names(s[variable],
                          [c \in present |-> capacity_col_map[c]]))

rename_hospital(s) == {rename_capacity(s, "hospital_beds_df")}

rename_primary(s) == {rename_capacity(s, "primary_care_df")}

\* Line 218
unify_capacity(s) ==
    {[Called(s, "unify", "capacity") EXCEPT
        !.capacity_df = unify_capacity_tables(s.hospital_beds_df, s.primary_care_df)]}

\* Lines 222-229
capacity_type_map(df) ==
    [c \in {"year", "num_facilities"} \cup ({"num_beds", "sector"} \cap columns(df)) |->
        IF c = "sector" THEN "Categorical" ELSE "Int32"]

\* Line 231
convert_capacity(s) ==
    {Assigned(s, "convert", "capacity", "capacity_df",
              convert_data_types(s.capacity_df, capacity_type_map(s.capacity_df)))}

\* Lines 234-240
standardize_capacity(s) ==
    IF "sector" \in columns(s.capacity_df)
    THEN {standardize(s, "capacity", "capacity_df")}
    ELSE {s}

analyze_capacity(s) == analyze(s, "capacity")

handle_missing_capacity(s) == {handle_missing(s, "capacity", "capacity_df")}

dedupe_capacity(s) ==
    dedupe(s, "capacity", "capacity_df",
           {"year", "institution_type", "sector", "source_table"})

outliers_capacity(s) ==
    {flag_outliers(s, "capacity", "capacity_df",
                   {"num_facilities"} \cup ({"num_beds"} \cap columns(s.capacity_df)))}

\* A validation step that lets every table through.
validate_nothing(s, table, variable, result) ==
    [Called(s, "validate", table) EXCEPT !.validated[table] = s[variable]]

\* Lines 280-292: the validator is called; its error is logged and raised
\* again.
validate(s, table, variable, result) ==
    IF after_validation(result, "next") = "except"
    THEN Fail(Called(s, "validate", table), result.raised)
    ELSE [Called(s, "validate", table) EXCEPT !.validated[table] = s[variable]]

validate_workforce(s) ==
    {validate(s, "workforce", "workforce_df",
              validate_with(workforce_checks(s.workforce_df, rules(s.config)),
                            workforce_keys, s.config))}

validate_capacity(s) ==
    {validate(s, "capacity", "capacity_df",
              validate_with(capacity_checks(s.capacity_df, rules(s.config)),
                            capacity_keys, s.config))}

\* Lines 300-311: write_parquet, which the file system may refuse.
save(s, table, variable, file) ==
    {[Called(s, "persist", table) EXCEPT
        !.persisted[table] = s[variable], !.written = @ \cup {file}],
     Fail(Called(s, "persist", table), "OSError")}

save_workforce(s) == save(s, "workforce", "workforce_df", "workforce_clean.parquet")

save_capacity(s) == save(s, "capacity", "capacity_df", "capacity_clean.parquet")

\* Lines 319-355: the two reports are generated and written to one file.
save_report(s) ==
    {[Called(Called(s, "report", "workforce"), "report", "capacity") EXCEPT
        !.written = @ \cup {"data_quality_report.md"}],
     Fail(Called(Called(s, "report", "workforce"), "report", "capacity"), "OSError")}

\* Lines 362-472
save_dictionary(s) ==
    {[s EXCEPT !.written = @ \cup {"README.md"}], Fail(s, "OSError")}

\* The configuration files of the runs: the complete one; one with another
\* strategy; one that lacks a recognized key.
OtherConfigFiles ==
    {with_strategy(CleaningConfig, strategy) :
        strategy \in {"drop_rows", "drop_cols", "mean"}}
        \cup {without(CleaningConfig, key) : key \in RecognizedKeys}

InitPipeline ==
    /\ \E doctors \in DoctorsFiles, others \in OtherWorkforceFiles,
          hospital_beds \in HospitalBedsFiles,
          config \in {CleaningConfig} \cup OtherConfigFiles :
            /\ config # CleaningConfig => Len(doctors.rows) < MaxRawRows
            /\ args = [fn |-> "clean_workforce_capacity_data",
                       config |-> config,
                       files |-> [doctors |-> doctors, nurses |-> others[1],
                                  pharmacists |-> others[2],
                                  hospital_beds |-> hospital_beds,
                                  primary_care |-> PrimaryCareFile]]
    /\ ret = Started_main
    /\ prev = NoReturn
    /\ calls = 0

\* One statement of main(): one of its outcomes, and the next statement
\* unless it raised.
Statement(name, outcomes) ==
    /\ args.fn = "clean_workforce_capacity_data"
    /\ ret.raised = "pending"
    /\ ret.pc = name
    /\ \E t \in outcomes :
          ret' = IF t.pc = name THEN [t EXCEPT !.pc = following(name)] ELSE t
    /\ prev' = ret
    /\ calls' = calls + 1
    /\ UNCHANGED args

LoadConfig == Statement("load_config", load_config(ret, args.config))

LoadRawData == Statement("load_raw_data", load_raw_data(ret, args.files))

RenameDoctors == Statement("rename_doctors", rename_doctors(ret))

RenameNurses == Statement("rename_nurses", rename_nurses(ret))

UnifyWorkforce == Statement("unify_workforce", unify_workforce(ret))

ConvertWorkforce == Statement("convert_workforce", convert_workforce(ret))

StandardizeWorkforce == Statement("standardize_workforce", standardize_workforce(ret))

AnalyzeWorkforce == Statement("analyze_workforce", analyze_workforce(ret))

HandleMissingWorkforce ==
    Statement("handle_missing_workforce", handle_missing_workforce(ret))

DedupeWorkforce == Statement("dedupe_workforce", dedupe_workforce(ret))

OutliersWorkforce == Statement("outliers_workforce", outliers_workforce(ret))

RenameHospital == Statement("rename_hospital", rename_hospital(ret))

RenamePrimary == Statement("rename_primary", rename_primary(ret))

UnifyCapacity == Statement("unify_capacity", unify_capacity(ret))

ConvertCapacity == Statement("convert_capacity", convert_capacity(ret))

StandardizeCapacity == Statement("standardize_capacity", standardize_capacity(ret))

AnalyzeCapacity == Statement("analyze_capacity", analyze_capacity(ret))

HandleMissingCapacity ==
    Statement("handle_missing_capacity", handle_missing_capacity(ret))

DedupeCapacity == Statement("dedupe_capacity", dedupe_capacity(ret))

OutliersCapacity == Statement("outliers_capacity", outliers_capacity(ret))

CheckWorkforce == Statement("validate_workforce", validate_workforce(ret))

CheckCapacity == Statement("validate_capacity", validate_capacity(ret))

PersistWorkforce == Statement("save_workforce", save_workforce(ret))

PersistCapacity == Statement("save_capacity", save_capacity(ret))

WriteReport == Statement("save_report", save_report(ret))

WriteDictionary == Statement("save_dictionary", save_dictionary(ret))

\* return 0 at the end of the try block; return 1 in "except Exception".
Exit ==
    /\ args.fn = "clean_workforce_capacity_data"
    /\ ret.raised = "pending"
    /\ ret.pc \in {"return", "except"}
    /\ ret' = [ret EXCEPT !.raised = "none", !.pc = "done",
                          !.value = IF ret.pc = "return" THEN 0 ELSE 1]
    /\ prev' = ret
    /\ calls' = calls + 1
    /\ UNCHANGED args

NextPipeline ==
    \/ LoadConfig
    \/ LoadRawData
    \/ RenameDoctors
    \/ RenameNurses
    \/ UnifyWorkforce
    \/ ConvertWorkforce
    \/ StandardizeWorkforce
    \/ AnalyzeWorkforce
    \/ HandleMissingWorkforce
    \/ DedupeWorkforce
    \/ OutliersWorkforce
    \/ RenameHospital
    \/ RenamePrimary
    \/ UnifyCapacity
    \/ ConvertCapacity
    \/ StandardizeCapacity
    \/ AnalyzeCapacity
    \/ HandleMissingCapacity
    \/ DedupeCapacity
    \/ OutliersCapacity
    \/ CheckWorkforce
    \/ CheckCapacity
    \/ PersistWorkforce
    \/ PersistCapacity
    \/ WriteReport
    \/ WriteDictionary
    \/ Exit

SpecPipeline == InitPipeline /\ [][NextPipeline]_vars

\* The run has ended with the exit code 0.
Succeeded ==
    /\ args.fn = "clean_workforce_capacity_data"
    /\ ret.raised = "none"
    /\ ret.value = 0

(***************************************************************************)
(* Claims about the run of main().                                         *)
(***************************************************************************)
InPipeline == args.fn = "clean_workforce_capacity_data"

\* The run has ended, with either exit code.
Ended == InPipeline /\ ret.raised = "none"

\* The stages called so far on a table, in the order of the calls.
StagesOf(table) ==
    LET of_table(entry) == entry.table = table
        entries == SelectSeq(ret.trace, of_table)
    IN  [i \in 1..Len(entries) |-> entries[i].stage]

\* The configuration file of the run lacks a recognized key.
LacksKey == \E key \in RecognizedKeys : ~has(args.config, key)

\* C21: if a recognized key of the cleaning configuration is missing, the
\* driver fails with a configuration error before any transformation stage
\* has been executed: no stage is ever called, and the run does not return 0.
C21_MissingKeyFailsFast ==
    (InPipeline /\ LacksKey) =>
        /\ ret.trace = <<>>
        /\ Ended => ret.value = 1

\* With a recognized key missing the run at least does not return 0.
C21_MissingKeyFails ==
    (InPipeline /\ LacksKey /\ Ended) => ret.value = 1

\* With a key missing that the cleaning stages or the validators read, the
\* run returns 1, at the statement that reads the key.
C21_MissingKeyFailsLate ==
    (InPipeline /\ Ended /\ \E key \in RecognizedKeys \ {<<"quality_thresholds", "max_outlier_percentage">>} : ~has(args.config, key))
        => ret.value = 1

\* The order of the stages of one table.
StageOrder ==
    <<"rename", "unify", "convert", "standardize", "analyze_missing",
      "handle_missing", "dedupe", "outliers", "validate", "persist", "report">>

Position(stage) == CHOOSE k \in 1..Len(StageOrder) : StageOrder[k] = stage

\* The stages called on the table follow the order; only the renaming, which
\* is called once for each raw file, comes more than once.
InStageOrder(table) ==
    LET stages == StagesOf(table)
    IN  \A i, j \in 1..Len(stages) :
            i < j => \/ Position(stages[i]) < Position(stages[j])
                     \/ stages[i] = "rename" /\ stages[j] = "rename"

\* No two rows of the table agree on the key.
UniqueOn(df, key) ==
    /\ key \subseteq columns(df)
    /\ \A i, j \in 1..len(df) : i # j => KeyOf(df.rows[i], key) # KeyOf(df.rows[j], key)

\* The statement that was just executed.
Executed(statement) ==
    /\ InPipeline
    /\ calls > 0
    /\ prev.pc = statement

C23_MapBeforeCategoricalCast ==
    InPipeline =>
        /\ ret.pc = "standardize_workforce"
              => ret.workforce_df.schema["sector"] # "Categorical"
        /\ (ret.pc = "standardize_capacity" /\ "sector" \in columns(ret.capacity_df))
              => ret.capacity_df.schema["sector"] # "Categorical"

\* What the driver does: at the standardization the column is Categorical.
C23_MapAfterCategoricalCast ==
    InPipeline =>
        /\ ret.pc = "standardize_workforce"
              => ret.workforce_df.schema["sector"] = "Categorical"
        /\ (ret.pc = "standardize_capacity" /\ "sector" \in columns(ret.capacity_df))
              => ret.capacity_df.schema["sector"] = "Categorical"

\* A record of the raw file holds a null.
HasRawNull(file) ==
    \E i \in 1..Len(file.rows) : \E c \in columns(file) : is_null(file.rows[i][c])

RawFileOf(source_table) ==
    CASE source_table = "workforce_doctors" -> args.files.doctors
      [] source_table = "workforce_nurses" -> args.files.nurses
      [] source_table = "workforce_pharmacists" -> args.files.pharmacists
      [] source_table = "capacity_hospital_beds" -> args.files.hospital_beds
      [] source_table = "capacity_primary_care" -> args.files.primary_care

\* The rows of a persisted table with has_missing_values = true come from
\* raw files that hold a record with a null.
FlagsOnlyRawNulls(df) ==
    \A i \in 1..len(df) :
        df.rows[i]["has_missing_values"] = Some(TRUE)
            => HasRawNull(RawFileOf(df.rows[i]["source_table"][1]))

\* C25: in the persisted tables has_missing_values is true only on rows whose
\* raw source record had a missing value; a record without a null in the raw
\* data has has_missing_values = false.
C25_FlagsRawNulls ==
    Succeeded =>
        /\ FlagsOnlyRawNulls(ret.persisted.workforce)
        /\ FlagsOnlyRawNulls(ret.persisted.capacity)

\* What the driver does: every row of the persisted workforce table has
\* has_missing_values = true.
C25_EveryWorkforceRowFlagged ==
    Succeeded =>
        \A i \in 1..len(ret.persisted.workforce) :
            ret.persisted.workforce.rows[i]["has_missing_values"] = Some(TRUE)

\* The canonical invariants of a workforce table under the rules of the
\* configuration.
Canonical(df, config) ==
    /\ {"year", "sector", "profession", "count"} \subseteq columns(df)
    /\ \A i \in 1..len(df) :
          LET row == df.rows[i]
          IN  /\ \A c \in {"year", "sector", "profession", "count"} : ~is_null(row[c])
              /\ row["year"][1] >= config.value_constraints.workforce.year_min
              /\ row["year"][1] <= config.value_constraints.workforce.year_max
              /\ row["count"][1] >= config.value_constraints.workforce.min_count
              /\ row["sector"][1] \in config.valid_values.sectors
              /\ row["profession"][1] \in config.valid_values.professions

\* A raw workforce record holds a year no integer can be read from: the
\* non-strict cast turns it into a null.
CastMadeNull ==
    \E file \in {args.files.doctors, args.files.nurses, args.files.pharmacists} :
        \E i \in 1..Len(file.rows) :
            /\ ~is_null(file.rows[i]["year"])
            /\ file.rows[i]["year"][1] \notin DOMAIN Parsed

\* C26: whenever main() returns 0, the persisted workforce table is the table
\* that passed validation and satisfies the canonical invariants: no null in
\* year, sector, profession or count, the year within its bounds, the count
\* at least min_count, the sector and the profession in the vocabularies;
\* a run in which the non-strict cast made a null does not return 0.
C26_PersistedIsValidated ==
    /\ Succeeded =>
          /\ ret.persisted.workforce = ret.validated.workforce
          /\ ret.persisted.workforce = ret.workforce_df
          /\ "workforce_clean.parquet" \in ret.written
          /\ Canonical(ret.persisted.workforce, rules(ret.config))
          /\ ~CastMadeNull
    /\ (InPipeline /\ CastMadeNull) =>
          /\ "workforce_clean.parquet" \notin ret.written
          /\ ret.persisted.workforce = NoFrame

\* A run that returned 0 and persisted a workforce table of two rows.
C26_Witness ==
    /\ Succeeded
    /\ len(ret.persisted.workforce) = 2
    /\ ret.persisted.workforce = ret.validated.workforce

\* A run whose doctors file holds a stray text for a year has ended with the
\* exit code 1 at the validation of the workforce table.
C26_CastNullRejected ==
    /\ Ended
    /\ CastMadeNull
    /\ ret.value = 1
    /\ ret.error = "ValueError"
    /\ Len(StagesOf("workforce")) > 0
    /\ StagesOf("workforce")[Len(StagesOf("workforce"))] = "validate"

\* The key columns of the rows, in row order.
KeyRows(df, key) == [i \in 1..len(df) |-> KeyOf(df.rows[i], key)]

\* The statements between the de-duplication of the workforce table and its
\* validation.
AfterDedupe ==
    {"outliers_workforce", "rename_hospital", "rename_primary", "unify_capacity",
     "convert_capacity", "standardize_capacity", "analyze_capacity",
     "handle_missing_capacity", "dedupe_capacity", "outliers_capacity",
     "validate_workforce"}

\* C28: once detect_duplicates has run on the workforce table, the uniqueness
\* check of validate_workforce_data on the key with source_table cannot fail:
\* the statements up to the validation leave the key columns of the rows as
\* they are, and at the validation no two rows share the key.
C28_UniquenessCannotFail ==
    InPipeline =>
        /\ (ret.raised = "pending" /\ ret.pc \in AfterDedupe) =>
              /\ UniqueOn(ret.workforce_df, dedupe_key)
              /\ validate_no_duplicates(ret.workforce_df, workforce_key) = Passed
        /\ (calls > 0 /\ prev.pc \in AfterDedupe) =>
              KeyRows(ret.workforce_df, workforce_key)
                  = KeyRows(prev.workforce_df, workforce_key)

\* The doctors file held the same record twice, and the workforce table has
\* reached its validation with one of the two.
C28_Witness ==
    /\ InPipeline
    /\ ret.raised = "pending"
    /\ ret.pc = "validate_workforce"
    /\ Len(args.files.doctors.rows) = 2
    /\ args.files.doctors.rows[1]["year"] = args.files.doctors.rows[2]["year"]
    /\ len(ret.workforce_df) = 2
    /\ validate_workforce_data(ret.workforce_df, rules(ret.config)).raised = "none"

\* The strategy of the configuration file.
Strategy == args.config.cleaning_strategies.missing_values.strategy

HasStrategy == has(args.config, <<"cleaning_strategies", "missing_values", "strategy">>)

\* C29: main() returns 0 only with the strategy flag; with drop_rows or
\* drop_cols no has_missing_values column is produced, the workforce table
\* does not pass its validation, nothing is persisted and main() returns 1.
C29_OnlyFlagSucceeds ==
    /\ Succeeded => (HasStrategy /\ Strategy = "flag")
    /\ (InPipeline /\ HasStrategy /\ Strategy \in {"drop_rows", "drop_cols"}) =>
          /\ "has_missing_values" \notin columns(ret.workforce_df)
          /\ ret.validated.workforce = NoFrame
          /\ ret.written = {}
          /\ \A i \in 1..Len(ret.trace) : ret.trace[i].stage # "persist"
          /\ Ended => ret.value = 1

\* A run with the strategy drop_cols that dropped no column has ended with
\* the exit code 1 at the validation of the workforce table.
C29_Witness ==
    /\ Ended
    /\ HasStrategy
    /\ Strategy = "drop_cols"
    /\ ret.value = 1
    /\ StagesOf("workforce")
          = <<"rename", "rename", "unify", "convert", "standardize",
              "analyze_missing", "handle_missing", "dedupe", "outliers",
              "validate">>
    /\ ret.written = {}

====
